---- MODULE Spec2Model ----
(***************************************************************************)
(* A model of the ROADMAP data manager: the tree provisioner (init_tree,   *)
(* _ensure_dataset), the install engine (install_into_tree), the           *)
(* per-container metadata store (metadata.Metadata), the remote publisher  *)
(* (publish_gin_sibling) and the front-end's worker dispatch.              *)
(*                                                                         *)
(* Paths are sequences of segments counted from the filesystem root; the   *)
(* storage engine (DataLad) is represented by the state it keeps: which    *)
(* paths are installed containers, which parent/child registrations        *)
(* exist, and which siblings a container has.                              *)
(***************************************************************************)
EXTENDS Integers, Sequences, FiniteSets, TLC

VARIABLES
    fs,          \* the filesystem: path -> [kind, data]; its domain are the existing paths
    installed,   \* the paths the storage engine reports as installed containers
    registered,  \* <<parent, child>> pairs: child is a registered subdataset of parent
    md,          \* container path -> its metadata.json document (key -> envelope)
    last,        \* the most recent DataManager call: arguments, outcome, engine calls
    handle,      \* the metadata.Metadata object in use: ds_root, key, in-memory document
    mlast,       \* the most recent Metadata.add through the handle, and the add before it
    got,         \* the result of the most recent Metadata.get since the last add
    running,     \* front-end: the workers the thread pool is executing, in start order
    queued,      \* front-end: the workers waiting in the thread pool's queue
    siblings,    \* container path -> sibling name -> [repo, url] of the remote
    gitmodules,  \* <<parent, child>> -> the url records of the child's submodule entry
    pushes,      \* the pushes the most recent publish made, in order
    now          \* the clock, in seconds

vars == <<fs, installed, registered, md, last, handle, mlast, got,
          running, queued, siblings, gitmodules, pushes, now>>

treeVars == <<fs, installed, registered, md, last>>
metaVars == <<handle, mlast, got>>
guiVars == <<running, queued>>
remoteVars == <<siblings, gitmodules, pushes>>

(***************************************************************************)
(* Python values                                                           *)
(***************************************************************************)
\* A dict is a function from its keys; {} is the function with no keys.
EmptyDict == << >>

\* dict.update: the keys of u are set in d, u winning on a collision.
DictUpdate(d, u) ==
    [k \in (DOMAIN d) \cup (DOMAIN u) |-> IF k \in DOMAIN u THEN u[k] ELSE d[k]]

\* d with key k set to v (d[k] = v).
DictSet(d, k, v) == [x \in (DOMAIN d) \cup {k} |-> IF x = k THEN v ELSE d[x]]

\* None where a dict is expected.
NoneValue == [none |-> TRUE]

\* None (or the empty string) where a name is expected.
NoName == ""

(***************************************************************************)
(* Paths                                                                   *)
(***************************************************************************)
IsPrefix(a, b) == Len(a) <= Len(b) /\ SubSeq(b, 1, Len(a)) = a

Parent(p) == IF p = << >> THEN << >> ELSE SubSeq(p, 1, Len(p) - 1)

\* PurePosixPath(*parts) as a string: the segments joined by "/".
RECURSIVE PosixJoin(_)
PosixJoin(parts) ==
    IF parts = << >> THEN ""
    ELSE IF Len(parts) = 1 THEN parts[1]
    ELSE parts[1] \o "/" \o PosixJoin(Tail(parts))

\* What the filesystem makes of a path: a ".." segment steps to the parent.
RECURSIVE ResolveFrom(_, _)
ResolveFrom(done, rest) ==
    IF rest = << >> THEN done
    ELSE IF Head(rest) = ".." THEN ResolveFrom(Parent(done), Tail(rest))
    ELSE ResolveFrom(Append(done, Head(rest)), Tail(rest))

Resolve(p) == ResolveFrom(<< >>, p)

\* Path.relative_to: purely lexical, it fails when base is no prefix of p.
RelativeOk(p, base) == IsPrefix(base, p)
RelativeTo(p, base) == SubSeq(p, Len(base) + 1, Len(p))

\* Path.exists, is_dir, is_file: the filesystem walks the path, so every proper
\* prefix must lead to a directory before a ".." can step out of it.
Exists(f, p) ==
    /\ Resolve(p) \in DOMAIN f
    /\ \A n \in 1..(Len(p) - 1) :
          /\ Resolve(SubSeq(p, 1, n)) \in DOMAIN f
          /\ f[Resolve(SubSeq(p, 1, n))].kind = "dir"
IsDir(f, p) == Exists(f, p) /\ f[Resolve(p)].kind = "dir"
IsFile(f, p) == Exists(f, p) /\ f[Resolve(p)].kind = "file"

DirNode == [kind |-> "dir", data |-> ""]
FileNode(d) == [kind |-> "file", data |-> d]

\* The paths strictly below p.
Below(f, p) == {q \in DOMAIN f : IsPrefix(p, q) /\ q # p}

\* All ancestors of p, p included, the filesystem root excluded.
Ancestors(p) == {SubSeq(p, 1, n) : n \in 1..Len(p)}

\* Path.mkdir(parents=True, exist_ok=True) on an already resolved path.
MkdirP(f, p) ==
    [q \in (DOMAIN f) \cup Ancestors(p) |-> IF q \in DOMAIN f THEN f[q] ELSE DirNode]

(***************************************************************************)
(* The manager's configuration (DataManager.__init__)                      *)
(***************************************************************************)
RootPath == <<"dm">>            \* cfg.dm_root
UserName == "Frank Heinrich"    \* cfg.user_name
UserEmail == "fheinrich@cmu.edu"
ExtractorName == "datamanager_v1"
ExtractorVersion == "1.0"
GinRepo == "repo"               \* cfg.GIN_repo

\* The identifier the storage engine issued for a container (Dataset.id).
DatasetId(ds) == "id(" \o PosixJoin(ds) \o ")"

\* The commit id of a container (get_dataset_version): opaque to the manager.
GetDatasetVersion(ds) == "sha(" \o PosixJoin(ds) \o ")"

(***************************************************************************)
(* helpers.ensure_paths                                                    *)
(***************************************************************************)
\* A path argument: not given (None), or given as relative or absolute parts.
NoPath == [given |-> FALSE, abs |-> FALSE, parts |-> << >>]
RelPath(parts) == [given |-> TRUE, abs |-> FALSE, parts |-> parts]
AbsPath(parts) == [given |-> TRUE, abs |-> TRUE, parts |-> parts]

\* ensure_paths without the relative_to check on an absolute path.
EnsurePathsAnywhere(inst, ds_path, path) ==
    LET Checked(ds, rel) ==
            IF ds \notin inst
            THEN [err |-> "RuntimeError", ds_path |-> ds, path |-> << >>,
                  absolute_path |-> ds, relposix |-> "."]
            ELSE [err |-> "none", ds_path |-> ds, path |-> rel,
                  absolute_path |-> IF path.given /\ path.abs THEN path.parts ELSE ds \o rel,
                  relposix |-> IF rel = << >> THEN "." ELSE PosixJoin(rel)]
    IN  Checked(Resolve(ds_path),
                IF ~path.given THEN << >>
                ELSE IF path.abs THEN RelativeTo(path.parts, Resolve(ds_path))
                ELSE path.parts)

EnsurePaths(inst, ds_path, path) ==
    LET Checked(ds, rel) ==
            IF ds \notin inst
            THEN [err |-> "RuntimeError", ds_path |-> ds, path |-> << >>,
                  absolute_path |-> ds, relposix |-> "."]
            ELSE IF path.abs /\ ~RelativeOk(path.parts, ds)
            THEN [err |-> "ValueError", ds_path |-> ds, path |-> << >>,
                  absolute_path |-> ds, relposix |-> "."]
            ELSE [err |-> "none", ds_path |-> ds, path |-> rel,
                  absolute_path |-> ds \o rel,
                  relposix |-> IF rel = << >> THEN "." ELSE PosixJoin(rel)]
    IN  Checked(Resolve(ds_path),
                IF ~path.given THEN << >>
                ELSE IF path.abs THEN RelativeTo(path.parts, Resolve(ds_path))
                ELSE path.parts)

(***************************************************************************)
(* metadata.Metadata                                                       *)
(***************************************************************************)
\* A payload argument: None, or a dict of caller-defined keys.
NoPayload == [given |-> FALSE, d |-> EmptyDict]
Payload(d) == [given |-> TRUE, d |-> d]

\* The document a container's metadata.json holds, {} when there is no file.
LoadDoc(docs, ds) == IF ds \in DOMAIN docs THEN docs[ds] ELSE EmptyDict

ClosedHandle == [open |-> FALSE, err |-> "none"]

\* Metadata.__init__: resolve the paths, load the container's document.
\* DataManager.save_meta and load_meta also pass dm_root=cfg.dm_root, a keyword
\* this revision of __init__ does not declare; the constructor is taken to
\* accept it and to make no use of it.
MetadataInit(inst, docs, ds_root, path) ==
    LET Loaded(ep) ==
            IF ep.err # "none"
            THEN [open |-> FALSE, err |-> ep.err]
            ELSE [open |-> TRUE, err |-> "none", ds_root |-> ep.ds_path,
                  absolute_path |-> ep.absolute_path, relposix |-> ep.relposix,
                  path_key |-> ep.relposix, meta |-> LoadDoc(docs, ep.ds_path)]
    IN  Loaded(EnsurePaths(inst, ds_root, path))

ContextValue == "https://schema.org/"

\* The Schema.org type of the node a record describes.
TypeStr(f, h) ==
    IF h.relposix = "." THEN "Dataset"
    ELSE IF IsDir(f, h.absolute_path) THEN "Collection"
    ELSE "CreativeWork"

\* The @id of a record: f"datalad:{node_type}{dataset_id}[:{relposix}]".
NodeId(h, node_type) ==
    IF h.relposix # "."
    THEN "datalad:" \o node_type \o DatasetId(h.ds_root) \o ":" \o h.relposix
    ELSE "datalad:" \o node_type \o DatasetId(h.ds_root)

\* The fields Metadata.add derives itself, before the payload is applied.
DerivedFields(f, h, node_type, name) ==
    LET Named(base) == IF name # NoName THEN DictSet(base, "name", name) ELSE base
    IN  Named([k \in {"@context", "@type", "@id", "identifier"} |->
                  CASE k = "@context" -> ContextValue
                    [] k = "@type" -> TypeStr(f, h)
                    [] k = "@id" -> NodeId(h, node_type)
                    [] OTHER -> h.relposix])

\* extracted_metadata without the extracted.update(payload) step.
ExtractedWithoutPayload(f, h, node_type, name, payload) ==
    DerivedFields(f, h, node_type, name)

\* extracted_metadata: the derived fields, then extracted.update(payload).
Extracted(f, h, node_type, name, payload) ==
    IF payload.given /\ payload.d # EmptyDict
    THEN DictUpdate(DerivedFields(f, h, node_type, name), payload.d)
    ELSE DerivedFields(f, h, node_type, name)

\* The envelope record of one write.
Envelope(f, h, payload, user_name, user_email, node_type, name, time) ==
    [type |-> IF h.relposix # "." THEN "file" ELSE "dataset",
     extractor_name |-> ExtractorName,
     extractor_version |-> ExtractorVersion,
     extraction_parameter |-> [path |-> h.relposix, node_type |-> node_type],
     extraction_time |-> time,
     agent_name |-> user_name,
     agent_email |-> user_email,
     dataset_id |-> DatasetId(h.ds_root),
     dataset_version |-> GetDatasetVersion(h.ds_root),
     path |-> h.relposix,
     extracted_metadata |-> Extracted(f, h, node_type, name, payload)]

\* A store that lays the new payload over the one the key held.
StoreRecordKeeping(meta, key, record, mode) ==
    IF key \in DOMAIN meta /\ meta[key] # NoneValue
    THEN [meta |-> DictSet(meta, key,
                           [record EXCEPT !.extracted_metadata =
                               DictUpdate(meta[key].extracted_metadata, @)]),
          err |-> "none"]
    ELSE [meta |-> DictSet(meta, key, record), err |-> "none"]

\* How the record enters the in-memory document. In merge mode on an existing
\* key both dict.update calls return None: the key is left holding None and the
\* item assignment that follows raises TypeError.
StoreRecord(meta, key, record, mode) ==
    IF mode = "overwrite" \/ key \notin DOMAIN meta
    THEN [meta |-> DictSet(meta, key, record), err |-> "none"]
    ELSE IF mode = "merge"
    THEN [meta |-> DictSet(meta, key, NoneValue), err |-> "TypeError"]
    ELSE [meta |-> meta, err |-> "none"]

\* Metadata.add
MetadataAdd(f, h, payload, mode, user_name, user_email, node_type, name, time) ==
    LET Stored(stored) == [h |-> [h EXCEPT !.meta = stored.meta], err |-> stored.err]
    IN  Stored(StoreRecord(h.meta, h.path_key,
                           Envelope(f, h, payload, user_name, user_email,
                                    node_type, name, time),
                           mode))

\* A save that leaves the document on disk as it was.
MetadataSaveSkipped(docs, h) == docs

\* Metadata.save: the in-memory document replaces the container's file.
MetadataSave(docs, h) == DictSet(docs, h.ds_root, h.meta)

\* Metadata.get
MetadataGet(h, mode) ==
    LET meta == IF h.path_key \in DOMAIN h.meta THEN h.meta[h.path_key] ELSE EmptyDict
    IN  IF mode = "envelope"
        THEN [mode |-> mode, err |-> "none", envelope |-> meta, val |-> EmptyDict]
        ELSE IF mode = "meta"
        THEN IF meta = NoneValue
             THEN [mode |-> mode, err |-> "AttributeError", envelope |-> EmptyDict,
                   val |-> EmptyDict]
             ELSE [mode |-> mode, err |-> "none", envelope |-> EmptyDict,
                   val |-> IF "extracted_metadata" \in DOMAIN meta
                           THEN meta.extracted_metadata ELSE EmptyDict]
        ELSE [mode |-> mode, err |-> "none", envelope |-> EmptyDict, val |-> EmptyDict]


(***************************************************************************)
(* The tree: what a DataManager call reads and changes                     *)
(***************************************************************************)
\* The part of the state a call works on, the engine calls it made so far
\* (trace) and the exception it ended with ("none" while it is running).
TreeState(f, inst, reg, docs) ==
    [fs |-> f, installed |-> inst, registered |-> reg, md |-> docs,
     trace |-> << >>, err |-> "none"]

Call(name, path, arg) == [call |-> name, path |-> path, arg |-> arg]

Raise(S, e) == [S EXCEPT !.err = e]
Traced(S, c) == [S EXCEPT !.trace = Append(@, c)]

\* No parent dataset given (superds=None).
NoSuper == [given |-> FALSE, path |-> << >>]
Super(p) == [given |-> TRUE, path |-> p]

\* A directory the engine refuses to create a dataset in unless forced.
NonEmptyDir(S, p) == Below(S.fs, p) # {} \/ p \in S.installed

\* A save_meta that does not hand the name on to the record.
SaveMetaUnnamed(S, ds_path, path, name, extra, do_not_save, time) ==
    LET Saved(h, added) ==
            IF added.err # "none" THEN Raise(S, added.err)
            ELSE IF do_not_save THEN [S EXCEPT !.md = MetadataSave(@, added.h)]
            ELSE [S EXCEPT !.md = MetadataSave(@, added.h),
                           !.trace = Append(@, Call("save", h.ds_root, "metadata"))]
        Opened(h) ==
            IF ~h.open THEN Raise(S, h.err)
            ELSE Saved(h, MetadataAdd(S.fs, h, extra, "overwrite", UserName,
                                      UserEmail, "None", NoName, time))
    IN  Opened(MetadataInit(S.installed, S.md, ds_path, path))

\* DataManager.save_meta: one overwrite-mode record, saved and committed.
SaveMeta(S, ds_path, path, name, extra, do_not_save, time) ==
    LET Saved(h, added) ==
            IF added.err # "none" THEN Raise(S, added.err)
            ELSE IF do_not_save THEN [S EXCEPT !.md = MetadataSave(@, added.h)]
            ELSE [S EXCEPT !.md = MetadataSave(@, added.h),
                           !.trace = Append(@, Call("save", h.ds_root, "metadata"))]
        Opened(h) ==
            IF ~h.open THEN Raise(S, h.err)
            ELSE Saved(h, MetadataAdd(S.fs, h, extra, "overwrite", UserName,
                                      UserEmail, "None", name, time))
    IN  Opened(MetadataInit(S.installed, S.md, ds_path, path))

\* A creation under a parent that does not refresh the parent first.
CreateDatasetUnrefreshed(S, path, superds, force) ==
    IF (~force /\ NonEmptyDir(S, path)) \/ IsFile(S.fs, path)
    THEN Raise(S, "CreateError")
    ELSE [S EXCEPT !.fs = MkdirP(@, path),
                   !.installed = @ \cup {path},
                   !.registered = IF superds.given
                                  THEN @ \cup {<<superds.path, path>>}
                                  ELSE @,
                   !.trace = IF superds.given
                             THEN @ \o <<Call("create", path,
                                              IF force THEN "force" ELSE ""),
                                         Call("save", superds.path, "")>>
                             ELSE Append(@, Call("create", path,
                                                 IF force THEN "force" ELSE ""))]

\* dl.create: a new container at path, registered in superds when one is given.
CreateDataset(S, path, superds, force) ==
    LET Made(S1) ==
            [S1 EXCEPT !.fs = MkdirP(@, path),
                       !.installed = @ \cup {path},
                       !.registered = IF superds.given
                                      THEN @ \cup {<<superds.path, path>>}
                                      ELSE @,
                       !.trace = IF superds.given
                                 THEN @ \o <<Call("create", path,
                                                  IF force THEN "force" ELSE ""),
                                             Call("save", superds.path, "")>>
                                 ELSE Append(@, Call("create", path,
                                                     IF force THEN "force" ELSE ""))]
        Updated(S1) ==
            IF (~force /\ NonEmptyDir(S, path)) \/ IsFile(S.fs, path)
            THEN Raise(S1, "CreateError")
            ELSE Made(S1)
    IN  Updated(IF superds.given THEN Traced(S, Call("update", superds.path, "merge"))
                ELSE S)

\* _ensure_dataset without its is_installed() early return.
EnsureDatasetRecreates(S, path, name, superds, register_installed, force, do_not_save, time) ==
    LET Described(p, created) ==
            IF created.err # "none" THEN created
            ELSE SaveMeta(created, p, NoPath, name, NoPayload, do_not_save, time)
        At(p) == Described(p, CreateDataset(S, p, superds, force))
    IN  At(Resolve(path))

\* DataManager._ensure_dataset
EnsureDataset(S, path, name, superds, register_installed, force, do_not_save, time) ==
    LET Described(p, created) ==
            IF created.err # "none" THEN created
            ELSE SaveMeta(created, p, NoPath, name, NoPayload, do_not_save, time)
        At(p) ==
            IF p \in S.installed
            THEN IF superds.given /\ register_installed
                 THEN [S EXCEPT !.registered = @ \cup {<<superds.path, p>>},
                                !.trace = Append(@, Call("save", superds.path,
                                                         "register"))]
                 ELSE S
            ELSE Described(p, CreateDataset(S, p, superds, force))
    IN  At(Resolve(path))

\* The levels init_tree addresses: a level exists when its name and every name
\* above it were supplied.
ProjectPath(project) == RootPath \o <<project>>
CampaignPath(project, campaign) == RootPath \o <<project, campaign>>
ExperimentPath(project, campaign, experiment) ==
    RootPath \o <<project, campaign, experiment>>

HasProject(project) == project # NoName
HasCampaign(project, campaign) == HasProject(project) /\ campaign # NoName
HasExperiment(project, campaign, experiment) ==
    HasCampaign(project, campaign) /\ experiment # NoName

\* A level that is described anew whether it was installed or not.
EnsureLevelDescribing(S, wanted, path, name, superds, force, time) ==
    LET Described(R) ==
            IF R.err # "none" THEN R
            ELSE SaveMeta(R, Resolve(path), NoPath, name, NoPayload, force, time)
    IN  IF S.err # "none" \/ ~wanted THEN S
        ELSE Described(EnsureDataset(S, path, name, superds, FALSE, force, force, time))

\* One level of init_tree: skipped when absent or when a level above failed.
EnsureLevel(S, wanted, path, name, superds, force, time) ==
    IF S.err # "none" \/ ~wanted THEN S
    ELSE EnsureDataset(S, path, name, superds, FALSE, force, force, time)

\* DataManager.init_tree
InitTreeCall(S, project, campaign, experiment, force, time) ==
    LET up == RootPath
        pp == ProjectPath(project)
        cp == CampaignPath(project, campaign)
        ep == ExperimentPath(project, campaign, experiment)
        S1 == EnsureLevel(S, TRUE, up, UserName, NoSuper, force, time)
        S2 == EnsureLevel(S1, HasProject(project), pp, project, Super(up), force, time)
        S3 == EnsureLevel(S2, HasCampaign(project, campaign), cp, campaign,
                          Super(pp), force, time)
        S4 == EnsureLevel(S3, HasExperiment(project, campaign, experiment), ep,
                          experiment, Super(cp), force, time)
        Saved(R) == IF R.err = "none" /\ force
                    THEN Traced(R, Call("save", up, "recursive"))
                    ELSE R
    IN  Saved(S4)

(***************************************************************************)
(* install_into_tree                                                       *)
(***************************************************************************)
ALLOWED_CATEGORIES ==
    {"raw", "reduced", "measurement", "analysis", "template",
     "experimental_optimization", "model"}

\* A category check that lets every category through.
AnyCategoryAllowed(category) == TRUE

CategoryAllowed(category) == category \in ALLOWED_CATEGORIES

\* Path.mkdir(parents=True, exist_ok=True) on a path that may hold "..": every
\* prefix of the path is made, in order, where it does not resolve to something.
RECURSIVE MkdirParents(_, _)
MkdirParents(f, p) ==
    LET Made(f1, r) ==
            IF r = << >> \/ r \in DOMAIN f1 THEN f1
            ELSE [q \in (DOMAIN f1) \cup {r} |-> IF q = r THEN DirNode ELSE f1[q]]
    IN  IF p = << >> THEN f ELSE Made(MkdirParents(f, Parent(p)), Resolve(p))

\* mkdir fails when the path, or a prefix of it, is a file.
MkdirFails(f, p) == \E n \in 1..Len(p) : IsFile(f, SubSeq(p, 1, n))

\* The name a path ends in (Path.name).
BaseName(p) == IF p = << >> THEN "" ELSE p[Len(p)]

\* f with the file or tree at path p removed.
RemoveTree(f, p) == [q \in {x \in DOMAIN f : ~IsPrefix(p, x)} |-> f[q]]

\* f with a file of the given data at p.
WriteFile(f, p, data) ==
    [q \in (DOMAIN f) \cup {p} |-> IF q = p THEN FileNode(data) ELSE f[q]]

\* shutil.copytree(src, dst, dirs_exist_ok=True) lays the tree at src over dst:
\* files at matching paths are replaced, everything else at dst is kept. An
\* entry is skipped, and the copy ends in an error, when a directory of the
\* source (or one above the entry) meets a file of the target.
CopyBlocked(f, src, dst, q) ==
    \E n \in Len(src)..Len(q) :
        LET a == SubSeq(q, 1, n)
        IN  f[a].kind = "dir" /\ IsFile(f, dst \o RelativeTo(a, src))

\* Where an entry of the source lands: a file that meets a directory of the
\* target is copied into that directory.
CopyDest(f, src, dst, q) ==
    LET t == dst \o RelativeTo(q, src)
    IN  IF f[q].kind = "file" /\ IsDir(f, t) THEN t \o <<BaseName(q)>> ELSE t

\* A copy that clears the target before it lays the source there.
CopyTreeWiping(f, src, dst) ==
    [t \in {x \in DOMAIN f : ~IsPrefix(dst, x)}
             \cup {dst \o RelativeTo(q, src) : q \in {x \in DOMAIN f : IsPrefix(src, x)}} |->
        IF IsPrefix(dst, t) THEN f[src \o RelativeTo(t, dst)] ELSE f[t]]

CopyTree(f, src, dst) ==
    LET Laid(moved) ==
            [t \in (DOMAIN f) \cup {CopyDest(f, src, dst, q) : q \in moved} |->
                IF \E q \in moved : CopyDest(f, src, dst, q) = t
                THEN f[CHOOSE q \in moved : CopyDest(f, src, dst, q) = t]
                ELSE f[t]]
    IN  Laid({q \in DOMAIN f : /\ IsPrefix(src, q)
                               /\ ~CopyBlocked(f, src, dst, q)
                               /\ ~(f[q].kind = "file"
                                    /\ IsDir(f, CopyDest(f, src, dst, q)))})

CopyTreeFails(f, src, dst) ==
    \E q \in {x \in DOMAIN f : IsPrefix(src, x)} :
        \/ CopyBlocked(f, src, dst, q)
        \/ f[q].kind = "file" /\ IsDir(f, CopyDest(f, src, dst, q))

\* The copy or move of a single file. Onto a directory, copy2 and move both
\* place the file inside it under the source's name.
PlaceFile(S, src, target, move) ==
    LET Into(into) ==
            IF move /\ IsDir(S.fs, target) /\ Exists(S.fs, into)
            THEN Raise(S, "shutil.Error")
            ELSE IF into = src THEN (IF move THEN S ELSE Raise(S, "SameFileError"))
            ELSE IF IsDir(S.fs, into) THEN Raise(S, "IsADirectoryError")
            ELSE IF move
            THEN [S EXCEPT !.fs = RemoveTree(WriteFile(@, into, S.fs[src].data), src)]
            ELSE [S EXCEPT !.fs = WriteFile(@, into, S.fs[src].data)]
    IN  Into(IF IsDir(S.fs, target) THEN target \o <<BaseName(src)>> ELSE target)

\* The copy or move of a directory: copytree, then rmdir of the source, which
\* removes an empty directory only.
PlaceDir(S, src, target, move, overwrite) ==
    LET Copied(copied) ==
            IF CopyTreeFails(S.fs, src, target) THEN Raise(copied, "shutil.Error")
            ELSE IF ~move THEN copied
            ELSE IF Below(S.fs, src) # {} THEN Raise(copied, "OSError")
            ELSE [copied EXCEPT !.fs = RemoveTree(@, src)]
    IN  IF IsPrefix(src, target) THEN Raise(S, "RecursionError")
        ELSE IF Exists(S.fs, target) /\ ~overwrite THEN Raise(S, "FileExistsError")
        ELSE IF IsFile(S.fs, target) THEN Raise(S, "FileExistsError")
        ELSE Copied([S EXCEPT !.fs = CopyTree(@, src, target)])

\* The destination folder and the final target of an install, as the code
\* joins them (unresolved).
DestPath(ep, category, dest_rel) == ep \o <<category>> \o dest_rel
FinalTarget(ep, category, dest_rel, rename, src) ==
    DestPath(ep, category, dest_rel)
        \o <<IF rename # NoName THEN rename ELSE BaseName(src)>>

\* The exceptions of install_into_tree, by the condition that raises them.
InvalidCategory == "ValueError: category"
SourceNotFound == "FileNotFoundError: src"
TargetExists == "FileExistsError: final_target"

\* An install that makes the category a container of its own, registered in
\* the experiment.
InstallContentCategoryDataset(S, src, ep, category, dest_rel, rename, move, metadata, overwrite, time) ==
    LET Described(final_target, S2) ==
            IF S2.err # "none" THEN S2
            ELSE IF ~RelativeOk(final_target, ep) THEN Raise(S2, "ValueError")
            ELSE SaveMeta(S2, ep, RelPath(RelativeTo(final_target, ep)), NoName,
                          metadata, FALSE, time)
        Placed(final_target, target, S1) ==
            IF Exists(S1.fs, final_target) /\ ~overwrite
            THEN Raise(S1, TargetExists)
            ELSE IF IsFile(S1.fs, src)
            THEN Described(final_target, PlaceFile(S1, src, target, move))
            ELSE Described(final_target, PlaceDir(S1, src, target, move, overwrite))
        Target(final_target, S1) == Placed(final_target, Resolve(final_target), S1)
        Made(cat_path, dest_path, f1) ==
            IF MkdirFails(S.fs, cat_path) THEN Raise(S, "FileExistsError")
            ELSE IF MkdirFails(f1, dest_path)
            THEN Raise([S EXCEPT !.fs = f1], "FileExistsError")
            ELSE Target(FinalTarget(ep, category, dest_rel, rename, src),
                        [S EXCEPT !.fs = MkdirParents(f1, dest_path),
                                  !.installed = @ \cup {cat_path},
                                  !.registered = @ \cup {<<ep, cat_path>>}])
    IN  Made(ep \o <<category>>, DestPath(ep, category, dest_rel),
             MkdirParents(S.fs, ep \o <<category>>))

\* DataManager.install_into_tree from the category directory on; S is the
\* state init_tree left, ep the experiment it returned.
InstallContent(S, src, ep, category, dest_rel, rename, move, metadata, overwrite, time) ==
    LET Described(final_target, S2) ==
            IF S2.err # "none" THEN S2
            ELSE IF ~RelativeOk(final_target, ep) THEN Raise(S2, "ValueError")
            ELSE SaveMeta(S2, ep, RelPath(RelativeTo(final_target, ep)), NoName,
                          metadata, FALSE, time)
        Placed(final_target, target, S1) ==
            IF Exists(S1.fs, final_target) /\ ~overwrite
            THEN Raise(S1, TargetExists)
            ELSE IF IsFile(S1.fs, src)
            THEN Described(final_target, PlaceFile(S1, src, target, move))
            ELSE Described(final_target, PlaceDir(S1, src, target, move, overwrite))
        Target(final_target, S1) == Placed(final_target, Resolve(final_target), S1)
        Made(cat_path, dest_path, f1) ==
            IF MkdirFails(S.fs, cat_path) THEN Raise(S, "FileExistsError")
            ELSE IF MkdirFails(f1, dest_path)
            THEN Raise([S EXCEPT !.fs = f1], "FileExistsError")
            ELSE Target(FinalTarget(ep, category, dest_rel, rename, src),
                        [S EXCEPT !.fs = MkdirParents(f1, dest_path)])
    IN  Made(ep \o <<category>>, DestPath(ep, category, dest_rel),
             MkdirParents(S.fs, ep \o <<category>>))

\* An install that provisions the tree first and looks at the source after.
InstallIntoTreeProvisionFirst(S, source, project, campaign, experiment, category, dest_rel, rename, move, metadata, overwrite, time) ==
    LET Provisioned(src, S1) ==
            IF S1.err # "none" THEN S1
            ELSE IF ~Exists(S1.fs, src) THEN Raise(S1, SourceNotFound)
            ELSE IF ~HasExperiment(project, campaign, experiment)
            THEN Raise(S1, "TypeError")
            ELSE InstallContent(S1, src, ExperimentPath(project, campaign, experiment),
                                category, dest_rel, rename, move, metadata,
                                overwrite, time)
        Checked(src) ==
            IF ~CategoryAllowed(category) THEN Raise(S, InvalidCategory)
            ELSE Provisioned(src, InitTreeCall(S, project, campaign, experiment,
                                               FALSE, time))
    IN  Checked(Resolve(source))

\* DataManager.install_into_tree
InstallIntoTreeCall(S, source, project, campaign, experiment, category, dest_rel, rename, move, metadata, overwrite, time) ==
    LET Provisioned(src, S1) ==
            IF S1.err # "none" THEN S1
            ELSE IF ~HasExperiment(project, campaign, experiment)
            THEN Raise(S1, "TypeError")
            ELSE InstallContent(S1, src, ExperimentPath(project, campaign, experiment),
                                category, dest_rel, rename, move, metadata,
                                overwrite, time)
        Checked(src) ==
            IF ~CategoryAllowed(category) THEN Raise(S, InvalidCategory)
            ELSE IF ~Exists(S.fs, src) THEN Raise(S, SourceNotFound)
            ELSE Provisioned(src, InitTreeCall(S, project, campaign, experiment,
                                               FALSE, time))
    IN  Checked(Resolve(source))

(***************************************************************************)
(* clone_from_gin                                                          *)
(***************************************************************************)
GinUser == "user"               \* cfg.GIN_user
\* A remote URL kept in its parts, so that rewriting one is a computation:
\* user@host:path[.git] for SSH, https://host/path[.git] for HTTPS. The path
\* is what follows the ":" or the "host/"; rooted says it starts with a "/"
\* of its own, which path then leaves out.
SshUrl(user, host, rooted, path, dotgit) ==
    [scheme |-> "ssh", user |-> user, host |-> host, rooted |-> rooted,
     path |-> path, dotgit |-> dotgit]
HttpsUrl(host, rooted, path, dotgit) ==
    [scheme |-> "https", user |-> "", host |-> host, rooted |-> rooted,
     path |-> path, dotgit |-> dotgit]

\* The URL as the string the code handles.
UrlText(u) ==
    (IF u.scheme = "ssh" THEN u.user \o "@" \o u.host \o ":"
     ELSE "https://" \o u.host \o "/")
    \o (IF u.rooted THEN "/" ELSE "") \o u.path
    \o (IF u.dotgit THEN ".git" ELSE "")

GinHost == "gin.g-node.org"

\* The source_url_root argument: None, or the user@host: a URL starts with,
\* with or without a "/" after the colon.
NoUrlRoot == [given |-> FALSE, user |-> "", host |-> "", rooted |-> FALSE]
UrlRoot(user, host, rooted) == [given |-> TRUE, user |-> user, host |-> host, rooted |-> rooted]
GinUrlRoot == UrlRoot("git", GinHost, TRUE)

\* source_url_root + user + '/' + repo + '.git'
CloneSourceUrl(source_url_root) ==
    LET From(root) == SshUrl(root.user, root.host, root.rooted, GinUser \o "/" \o GinRepo, TRUE)
    IN  From(IF source_url_root.given THEN source_url_root ELSE GinUrlRoot)

\* The sibling a clone is left with: origin, at the URL it was cloned from.
CloneOrigin(source_url_root) == [repo |-> GinRepo, url |-> CloneSourceUrl(source_url_root)]

\* DataManager.clone_from_gin: dest is made, must be empty, and becomes an
\* installed container that no parent has registered; its sibling is origin.
CloneFromGinCall(S, dest, source_url_root) ==
    LET Cloned(d, S1) ==
            IF MkdirFails(S.fs, d) THEN Raise(S, "FileExistsError")
            ELSE IF NonEmptyDir(S1, d) THEN Raise(S1, "RuntimeError")
            ELSE [S1 EXCEPT !.installed = @ \cup {d},
                            !.trace = <<Call("clone", d, UrlText(CloneSourceUrl(source_url_root))),
                                        Call("update", d, "merge"),
                                        Call("save", d, "recursive")>>]
        At(d) == Cloned(d, [S EXCEPT !.fs = MkdirP(@, d)])
    IN  At(Resolve(dest))

(***************************************************************************)
(* The operations on the tree                                              *)
(***************************************************************************)
\* The arguments of a call, one shape for every operation.
Args(source, project, campaign, experiment, category, dest_rel, rename, move, metadata, overwrite, force) ==
    [source |-> source, project |-> project, campaign |-> campaign,
     experiment |-> experiment, category |-> category, dest_rel |-> dest_rel,
     rename |-> rename, move |-> move, metadata |-> metadata,
     overwrite |-> overwrite, force |-> force]

NoArgs == Args(<< >>, NoName, NoName, NoName, "", << >>, NoName, FALSE, NoPayload,
               FALSE, FALSE)

NoCall ==
    [op |-> "none", args |-> NoArgs, err |-> "none", ret |-> << >>, trace |-> << >>,
     repeated |-> FALSE, prev_err |-> "none", existed |-> FALSE]

\* The record of a finished call; repeated says the call before it was the same
\* operation with the same arguments, prev_err how that one ended.
Finished(op, args, R, ret, existed) ==
    [op |-> op, args |-> args, err |-> R.err,
     ret |-> IF R.err = "none" THEN ret ELSE << >>,
     trace |-> R.trace,
     repeated |-> (last.op = op /\ last.args = args),
     prev_err |-> last.err,
     existed |-> existed]

Current == TreeState(fs, installed, registered, md)

\* One finished call: the tree becomes what the call left, last records it.
Returns(op, args, R, ret, existed) ==
    /\ fs' = R.fs
    /\ installed' = R.installed
    /\ registered' = R.registered
    /\ md' = R.md
    /\ last' = Finished(op, args, R, ret, existed)
    /\ now' = now + 1

InitTree(project, campaign, experiment, force) ==
    /\ Returns("init_tree",
               Args(<< >>, project, campaign, experiment, "", << >>, NoName, FALSE,
                    NoPayload, FALSE, force),
               InitTreeCall(Current, project, campaign, experiment, force, now),
               IF HasExperiment(project, campaign, experiment)
               THEN ExperimentPath(project, campaign, experiment) ELSE << >>,
               FALSE)
    /\ UNCHANGED <<metaVars, guiVars, remoteVars>>

InstallIntoTree(source, project, campaign, experiment, category, dest_rel, rename, move, metadata, overwrite) ==
    /\ Returns("install_into_tree",
               Args(source, project, campaign, experiment, category, dest_rel,
                    rename, move, metadata, overwrite, FALSE),
               InstallIntoTreeCall(Current, source, project, campaign, experiment,
                                   category, dest_rel, rename, move, metadata,
                                   overwrite, now),
               FinalTarget(ExperimentPath(project, campaign, experiment), category,
                           dest_rel, rename, Resolve(source)),
               Resolve(FinalTarget(ExperimentPath(project, campaign, experiment),
                                   category, dest_rel, rename, Resolve(source)))
                   \in DOMAIN fs)
    /\ UNCHANGED <<metaVars, guiVars, remoteVars>>

CloneFromGin(dest, source_url_root) ==
    LET Done(R) ==
            /\ Returns("clone_from_gin", [NoArgs EXCEPT !.source = dest], R,
                       Resolve(dest), FALSE)
            /\ siblings' = IF R.err = "none"
                           THEN DictSet(siblings, Resolve(dest),
                                        [origin |-> CloneOrigin(source_url_root)])
                           ELSE siblings
    IN  /\ Done(CloneFromGinCall(Current, dest, source_url_root))
        /\ UNCHANGED <<metaVars, guiVars, gitmodules, pushes>>

(***************************************************************************)
(* The state after construction                                            *)
(***************************************************************************)
\* Content outside the tree: a file, a folder holding a file, a missing path.
SourceFile == <<"in", "f">>
SourceDir == <<"in", "d">>
SourceMissing == <<"in", "nope">>

\* No add and no get made yet on the handle.
NoAdd ==
    [done |-> FALSE, mode |-> "", payload |-> NoPayload, name |-> NoName,
     node_type |-> "", err |-> "none", adds |-> 0, left |-> {},
     prev_mode |-> "", prev_payload |-> NoPayload, prev_err |-> "none"]
NoGet ==
    [done |-> FALSE, mode |-> "", err |-> "none", envelope |-> EmptyDict,
     val |-> EmptyDict]

\* An empty root folder, no container yet, and the content to install.
InitFs ==
    (<<"dm">> :> DirNode) @@ (<<"in">> :> DirNode)
    @@ (SourceFile :> FileNode("a")) @@ (SourceDir :> DirNode)
    @@ ((SourceDir \o <<"f">>) :> FileNode("b"))

Constructed ==
    /\ fs = InitFs
    /\ installed = {}
    /\ registered = {}
    /\ md = EmptyDict
    /\ last = NoCall
    /\ handle = ClosedHandle
    /\ mlast = NoAdd
    /\ got = NoGet
    /\ running = << >>
    /\ queued = << >>
    /\ siblings = EmptyDict
    /\ gitmodules = EmptyDict
    /\ pushes = << >>
    /\ now = 0

(***************************************************************************)
(* SpecTree: provisioning and cloning                                      *)
(***************************************************************************)
\* The names a client passes; NoName stands for an omitted level.
Projects == {NoName, "p"}
Campaigns == {NoName, "c"}
Experiments == {NoName, "e1", "e2"}
CloneDests == {<<"dm", "p">>, <<"dm", "p", "c">>}
MaxCalls == 3

NextTree ==
    \/ \E project \in Projects, campaign \in Campaigns,
          experiment \in Experiments, force \in BOOLEAN :
          now < MaxCalls /\ InitTree(project, campaign, experiment, force)
    \/ \E dest \in CloneDests : now < MaxCalls /\ CloneFromGin(dest, NoUrlRoot)

SpecTree == Constructed /\ [][NextTree]_vars

(***************************************************************************)
(* SpecInstall: installs into the experiments of one campaign              *)
(***************************************************************************)
InstallSources == {SourceFile, SourceDir}
InstallExperiments == {"e1", "e2"}
Categories == {"raw", "bogus"}
DestRels == {<< >>, <<"..">>, <<"..", "..">>}
Renames == {NoName, "r"}
Metadatas == {NoPayload, Payload([note |-> "x"])}
MaxInstalls == 2

NextInstall ==
    \E source \in InstallSources, experiment \in InstallExperiments,
       category \in Categories, dest_rel \in DestRels, rename \in Renames,
       move \in BOOLEAN, metadata \in Metadatas, overwrite \in BOOLEAN :
       /\ now < MaxInstalls
       /\ InstallIntoTree(source, "p", "c", experiment, category, dest_rel,
                          rename, move, metadata, overwrite)

SpecInstall == Constructed /\ [][NextInstall]_vars

(***************************************************************************)
(* Properties of the tree provisioner                                      *)
(***************************************************************************)
\* The containers init_tree addresses for the given names, root first.
Levels(project, campaign, experiment) ==
    {RootPath}
    \cup (IF HasProject(project) THEN {ProjectPath(project)} ELSE {})
    \cup (IF HasCampaign(project, campaign)
          THEN {CampaignPath(project, campaign)} ELSE {})
    \cup (IF HasExperiment(project, campaign, experiment)
          THEN {ExperimentPath(project, campaign, experiment)} ELSE {})

LastLevels == Levels(last.args.project, last.args.campaign, last.args.experiment)

LastExperiment ==
    ExperimentPath(last.args.project, last.args.campaign, last.args.experiment)
LastTarget ==
    Resolve(FinalTarget(LastExperiment, last.args.category, last.args.dest_rel,
                        last.args.rename, Resolve(last.args.source)))
Installed == last.op = "install_into_tree" /\ last.err = "none"

\* The files and folders at p and below it, with their content.
Content(f, p) == [q \in {x \in DOMAIN f : IsPrefix(p, x)} |-> f[q]]

C3_InvalidCategoryRejected ==
    [][(last'.op = "install_into_tree"
          /\ last'.args.category \notin ALLOWED_CATEGORIES)
         => /\ last'.err = InvalidCategory
            /\ fs' = fs
            /\ installed' = installed
            /\ registered' = registered
            /\ md' = md]_vars

\* C3 happens: an install of existing content with a category that is not
\* allowed, on a tree that already holds containers, was rejected.
C3_Witness ==
    /\ last.op = "install_into_tree"
    /\ last.args.category = "bogus"
    /\ last.args.source \in DOMAIN fs
    /\ last.err = InvalidCategory
    /\ installed # {}

\* C8: an install whose final target exists while overwrite is false, the
\* category being allowed and the source present, fails with TargetExists and
\* leaves the target's content, the source and the metadata document of the
\* experiment container as they were.
C8_TargetExistsLeavesAll ==
    [][(/\ last'.op = "install_into_tree"
        /\ last'.existed
        /\ ~last'.args.overwrite
        /\ last'.args.category \in ALLOWED_CATEGORIES
        /\ last'.args.source \in DOMAIN fs)
         => /\ last'.err = TargetExists
            /\ Content(fs', LastTarget') = Content(fs, LastTarget')
            /\ Content(fs', last'.args.source) = Content(fs, last'.args.source)
            /\ LoadDoc(md', LastExperiment') = LoadDoc(md, LastExperiment')]_vars

StoredKeys(h) ==
    IF h.path_key \notin DOMAIN h.meta THEN {}
    ELSE IF h.meta[h.path_key] = NoneValue THEN {}
    ELSE DOMAIN h.meta[h.path_key].extracted_metadata

\* Metadata(ds_root, path)
MetaOpen(ds_root, path) ==
    /\ handle' = MetadataInit(installed, md, ds_root, path)
    /\ mlast' = NoAdd
    /\ got' = NoGet
    /\ UNCHANGED <<treeVars, guiVars, remoteVars, now>>

\* Metadata.add on the open handle; mlast records the call, the payload keys
\* the key held before it (left), the add before it, and how many adds the
\* handle has seen.
MetaAdd(payload, mode, node_type, name) ==
    LET Added(R) ==
            /\ handle' = R.h
            /\ mlast' = [done |-> TRUE, mode |-> mode, payload |-> payload,
                         name |-> name, node_type |-> node_type, err |-> R.err,
                         adds |-> mlast.adds + 1, left |-> StoredKeys(handle),
                         prev_mode |-> mlast.mode, prev_payload |-> mlast.payload,
                         prev_err |-> mlast.err]
    IN  /\ handle.open
        /\ Added(MetadataAdd(fs, handle, payload, mode, UserName, UserEmail,
                             node_type, name, now))
        /\ got' = NoGet
        /\ UNCHANGED <<treeVars, guiVars, remoteVars, now>>

\* Metadata.save
MetaSave ==
    /\ handle.open
    /\ md' = MetadataSave(md, handle)
    /\ UNCHANGED <<fs, installed, registered, last, metaVars, guiVars, remoteVars,
                   now>>

\* Metadata.get
MetaGet(mode) ==
    /\ handle.open
    /\ got' = [done |-> TRUE] @@ MetadataGet(handle, mode)
    /\ UNCHANGED <<treeVars, handle, mlast, guiVars, remoteVars, now>>

\* DataManager.load_meta: a Metadata object of its own on (ds_path, path), and
\* its get; an exception of the constructor is the call's.
LoadMetaCall(S, ds_path, path, mode) ==
    LET Read(h) ==
            IF h.open THEN MetadataGet(h, mode)
            ELSE [mode |-> mode, err |-> h.err, envelope |-> EmptyDict,
                  val |-> EmptyDict]
    IN  Read(MetadataInit(S.installed, S.md, ds_path, path))

LoadMeta(ds_path, path, mode) ==
    LET Read(g) ==
            /\ got' = [done |-> TRUE] @@ g
            /\ Returns("load_meta",
                       [NoArgs EXCEPT !.source = ds_path, !.dest_rel = path.parts],
                       [Current EXCEPT !.err = g.err], << >>, FALSE)
    IN  /\ Read(LoadMetaCall(Current, ds_path, path, mode))
        /\ UNCHANGED <<handle, mlast, guiVars, remoteVars>>

\* The tree init_tree(project="p", campaign=campaign) leaves on the constructed
\* state: with campaign "c" the key "c" names a directory, without it nothing.
MetaProvisioned(campaign) ==
    InitTreeCall(TreeState(InitFs, {}, {}, EmptyDict), "p", campaign, NoName, FALSE, 0)

MetaCampaigns == {NoName, "c"}

InitMeta ==
    /\ \E campaign \in MetaCampaigns :
          /\ fs = MetaProvisioned(campaign).fs
          /\ installed = MetaProvisioned(campaign).installed
          /\ registered = MetaProvisioned(campaign).registered
          /\ md = MetaProvisioned(campaign).md
    /\ last = NoCall
    /\ handle = ClosedHandle
    /\ mlast = NoAdd
    /\ got = NoGet
    /\ running = << >>
    /\ queued = << >>
    /\ siblings = EmptyDict
    /\ gitmodules = EmptyDict
    /\ pushes = << >>
    /\ now = 0

MetaRoots == {ProjectPath("p"), ProjectPath("q")}
MetaPaths == {NoPath, RelPath(<<"c">>)}
MetaPayloads ==
    {NoPayload,
     Payload([note |-> "x"]),
     Payload(("@id" :> "mine") @@ ("unit" :> "mm"))}
MetaModes == {"overwrite", "merge"}
MetaNodeTypes == {"None"}
MetaNames == {NoName, "n1"}
GetModes == {"envelope", "meta", "other"}
MaxAdds == 2

NextMeta ==
    \/ \E ds_root \in MetaRoots, path \in MetaPaths : MetaOpen(ds_root, path)
    \/ \E payload \in MetaPayloads, mode \in MetaModes, node_type \in MetaNodeTypes,
          name \in MetaNames :
          mlast.adds < MaxAdds /\ MetaAdd(payload, mode, node_type, name)
    \/ MetaSave
    \/ \E mode \in GetModes : MetaGet(mode)

SpecMeta == InitMeta /\ [][NextMeta]_vars


(***************************************************************************)
(* Properties of the metadata store                                        *)
(***************************************************************************)
\* A second merge-mode add followed a merge-mode add on the same handle.
MergedTwice == mlast.done /\ mlast.mode = "merge" /\ mlast.prev_mode = "merge"

\* The payload the handle holds under its key.
StoredPayload == handle.meta[handle.path_key].extracted_metadata

\* C4: add(mode=merge, payload=A) followed by add(mode=merge, payload=B) on
\* the same key completes without error and leaves a payload that has every
\* key of A and of B, with B's value where B has the key and A's elsewhere.
C4_MergeLaw ==
    MergedTwice
        => /\ mlast.prev_err = "none"
           /\ mlast.err = "none"
           /\ handle.meta[handle.path_key] # NoneValue
           /\ \A k \in DOMAIN mlast.payload.d :
                 k \in DOMAIN StoredPayload /\ StoredPayload[k] = mlast.payload.d[k]
           /\ \A k \in (DOMAIN mlast.prev_payload.d) \ (DOMAIN mlast.payload.d) :
                 k \in DOMAIN StoredPayload
                 /\ StoredPayload[k] = mlast.prev_payload.d[k]

\* A get(mode='meta') answered right after an overwrite-mode add on the handle.
GotAfterOverwrite ==
    got.done /\ got.mode = "meta" /\ mlast.done /\ mlast.mode = "overwrite"

\* The value each derived field has for the handle and the last add.
DerivedId ==
    IF handle.path_key = "."
    THEN "datalad:" \o mlast.node_type \o DatasetId(handle.ds_root)
    ELSE "datalad:" \o mlast.node_type \o DatasetId(handle.ds_root) \o ":"
            \o handle.path_key

\* C5 as stated: the payload read back after an overwrite holds every supplied
\* key with its value, the fixed fields name, identifier and @id with their
\* derived values, and no key beyond the supplied ones and the derived fields.
C5_GetReturnsPayloadAndFixed ==
    GotAfterOverwrite
        => /\ got.err = "none"
           /\ \A k \in DOMAIN mlast.payload.d :
                 k \in DOMAIN got.val /\ got.val[k] = mlast.payload.d[k]
           /\ {"name", "identifier", "@id"} \subseteq DOMAIN got.val
           /\ got.val["name"] = mlast.name
           /\ got.val["identifier"] = handle.path_key
           /\ got.val["@id"] = DerivedId
           /\ DOMAIN got.val \subseteq
                 (DOMAIN mlast.payload.d)
                 \cup {"name", "identifier", "@id", "@context", "@type"}

\* C5 amended: the payload read back after an overwrite holds every supplied
\* key with its value; @context, @type, @id and identifier carry their derived
\* values unless the payload supplies the key; name is the name passed to add
\* and is present only when one was passed or the payload supplies it; no
\* other key, none left over from an earlier record, is present.
C5_GetReturnsPayloadOverDerived ==
    GotAfterOverwrite
        => /\ got.err = "none"
           /\ \A k \in DOMAIN mlast.payload.d :
                 k \in DOMAIN got.val /\ got.val[k] = mlast.payload.d[k]
           /\ \A k \in {"@context", "@type", "@id", "identifier"}
                          \ (DOMAIN mlast.payload.d) :
                 /\ k \in DOMAIN got.val
                 /\ k = "@context" => got.val[k] = ContextValue
                 /\ k = "@type" => got.val[k] =
                       (IF handle.path_key = "." THEN "Dataset"
                        ELSE IF IsDir(fs, handle.absolute_path) THEN "Collection"
                        ELSE "CreativeWork")
                 /\ k = "@id" => got.val[k] = DerivedId
                 /\ k = "identifier" => got.val[k] = handle.path_key
           /\ ("name" \notin DOMAIN mlast.payload.d /\ mlast.name # NoName)
                 => ("name" \in DOMAIN got.val /\ got.val["name"] = mlast.name)
           /\ DOMAIN got.val =
                 (DOMAIN mlast.payload.d)
                 \cup {"@context", "@type", "@id", "identifier"}
                 \cup (IF mlast.name # NoName THEN {"name"} ELSE {})

\* C5 happens: an overwrite with a payload replaced a record that held a key
\* the payload lacks, and the payload was read back.
C5_Witness ==
    /\ GotAfterOverwrite
    /\ got.err = "none"
    /\ mlast.payload.given
    /\ mlast.left \ DOMAIN got.val # {}
    /\ "@id" \in DOMAIN mlast.payload.d


(***************************************************************************)
(* SpecGui: the front-end's worker dispatch                                *)
(***************************************************************************)
\* QThreadPool.globalInstance().maxThreadCount(): the ideal thread count of
\* the machine, two or more on any multi-core machine.
MaxThreadCount == 2

\* A Worker: the DataManager method it will call, on which container, with
\* which source (install) or payload (save_meta).
Worker(fn, container, source, extra) ==
    [fn |-> fn, container |-> container, source |-> source, extra |-> extra]

\* QThreadPool.start for each worker in turn: a worker gets a thread while one
\* is free, otherwise it waits in the pool's queue.
RECURSIVE PoolStart(_, _, _)
PoolStart(run, wait, workers) ==
    IF workers = << >> THEN [running |-> run, queued |-> wait]
    ELSE IF Len(run) < MaxThreadCount
    THEN PoolStart(Append(run, Head(workers)), wait, Tail(workers))
    ELSE PoolStart(run, Append(wait, Head(workers)), Tail(workers))

\* MainWindow._run_in_worker, for the workers one handler creates.
RunInWorker(workers) ==
    LET Started(pool) == running' = pool.running /\ queued' = pool.queued
    IN  Started(PoolStart(running, queued, workers))

\* Where the left panel stands (dm_current_path) and what the metadata panel
\* shows (meta_current_ds_root): the experiment p/c/e1.
GuiExperiment == ExperimentPath("p", "c", "e1")
GuiCategory == "raw"
GuiMetadata == Payload([installed_by_gui |-> "True"])

RECURSIVE InstallWorkers(_)
InstallWorkers(sources) ==
    IF sources = << >> THEN << >>
    ELSE <<Worker("install_into_tree", GuiExperiment, Head(sources), GuiMetadata)>>
            \o InstallWorkers(Tail(sources))

\* MainWindow.fileviewer_install_selected_sources_into_dm at the experiment
\* level: one worker per selected source, then the panel is refreshed.
InstallSelected(sources) ==
    /\ RunInWorker(InstallWorkers(sources))
    /\ UNCHANGED <<treeVars, metaVars, remoteVars, now>>

\* MainWindow.metadata_save_changes: one worker that calls save_meta.
MetadataSaveChanges(extra) ==
    /\ RunInWorker(<<Worker("save_meta", GuiExperiment, << >>, extra)>>)
    /\ UNCHANGED <<treeVars, metaVars, remoteVars, now>>

\* The sequence s without its i-th element.
Without(s, i) == SubSeq(s, 1, i - 1) \o SubSeq(s, i + 1, Len(s))

\* Worker.run of the i-th running worker: it calls its method to the end, and
\* the thread it frees takes the next worker from the queue.
WorkerRun(i) ==
    /\ i \in DOMAIN running
    /\ IF running[i].fn = "install_into_tree"
       THEN Returns("install_into_tree",
                    Args(running[i].source, "p", "c", "e1", GuiCategory, << >>,
                         NoName, FALSE, running[i].extra, FALSE, FALSE),
                    InstallIntoTreeCall(Current, running[i].source, "p", "c", "e1",
                                        GuiCategory, << >>, NoName, FALSE,
                                        running[i].extra, FALSE, now),
                    FinalTarget(GuiExperiment, GuiCategory, << >>, NoName,
                                Resolve(running[i].source)),
                    Resolve(FinalTarget(GuiExperiment, GuiCategory, << >>, NoName,
                                        Resolve(running[i].source))) \in DOMAIN fs)
       ELSE Returns("save_meta",
                    [NoArgs EXCEPT !.metadata = running[i].extra],
                    SaveMeta(Current, running[i].container, NoPath, NoName,
                             running[i].extra, FALSE, now),
                    << >>, FALSE)
    /\ IF queued = << >>
       THEN running' = Without(running, i) /\ queued' = queued
       ELSE running' = Append(Without(running, i), Head(queued))
            /\ queued' = Tail(queued)
    /\ UNCHANGED <<metaVars, remoteVars>>

\* The tree init_tree(project="p", campaign="c", experiment="e1") leaves.
GuiProvisioned ==
    InitTreeCall(TreeState(InitFs, {}, {}, EmptyDict), "p", "c", "e1", FALSE, 0)

InitGui ==
    /\ fs = GuiProvisioned.fs
    /\ installed = GuiProvisioned.installed
    /\ registered = GuiProvisioned.registered
    /\ md = GuiProvisioned.md
    /\ last = NoCall
    /\ handle = ClosedHandle
    /\ mlast = NoAdd
    /\ got = NoGet
    /\ running = << >>
    /\ queued = << >>
    /\ siblings = EmptyDict
    /\ gitmodules = EmptyDict
    /\ pushes = << >>
    /\ now = 0

Selections == {<<SourceFile>>, <<SourceDir>>, <<SourceFile, SourceDir>>}
GuiPayloads == {Payload([note |-> "x"])}
MaxWorkers == 3
MaxGuiTime == 4

NextGui ==
    \/ \E sources \in Selections :
          /\ Len(running) + Len(queued) + Len(sources) <= MaxWorkers
          /\ InstallSelected(sources)
    \/ \E extra \in GuiPayloads :
          /\ Len(running) + Len(queued) < MaxWorkers
          /\ MetadataSaveChanges(extra)
    \/ \E i \in 1..MaxThreadCount : now < MaxGuiTime /\ WorkerRun(i)

SpecGui == InitGui /\ [][NextGui]_vars

\* C6: the front-end never has more than one mutating operation in flight on
\* the same container: no two running workers work on the same container.
C6_OneWriterPerContainer ==
    \A i, j \in DOMAIN running :
        i # j => running[i].container # running[j].container

(***************************************************************************)
(* DataManager.publish_gin_sibling                                         *)
(***************************************************************************)
\* '-'.join(parts)
RECURSIVE HyphenJoin(_)
HyphenJoin(parts) ==
    IF parts = << >> THEN ""
    ELSE IF Len(parts) = 1 THEN parts[1]
    ELSE parts[1] \o "-" \o HyphenJoin(Tail(parts))

\* The repository name handed to the engine, with the segments joined by "/".
RepoNameSlashJoined(repo_name, relpath) ==
    IF relpath # << >> THEN repo_name \o "/" \o PosixJoin(relpath) ELSE repo_name

\* The repository name handed to the engine for the container at relpath.
RepoName(repo_name, relpath) ==
    IF relpath # << >> THEN repo_name \o "-" \o HyphenJoin(relpath) ELSE repo_name

\* helpers.ssh_to_https: only a URL that starts with git@ is rewritten, to
\* "https://" + host + "/" + what follows the ":", a leading "/" included.
SshToHttps(u) ==
    IF u.scheme = "ssh" /\ u.user = "git"
    THEN HttpsUrl(u.host, u.rooted, u.path, FALSE)
    ELSE u

\* The browser URL recorded for a sibling URL: HTTP(S) without .git, else rewritten.
HttpsForm(url) ==
    IF url.scheme = "https" THEN [url EXCEPT !.dotgit = FALSE] ELSE SshToHttps(url)

\* The URL the engine configures for a repository created at GIN.
GinSiblingUrl(access_protocol, repo) ==
    IF access_protocol = "ssh"
    THEN SshUrl("git", GinHost, TRUE, GinUser \o "/" \o repo, TRUE)
    ELSE HttpsUrl(GinHost, FALSE, GinUser \o "/" \o repo, TRUE)

\* What a publish works on: the remote configuration, and what it did.
PublishState(sibs, mods) ==
    [siblings |-> sibs, gitmodules |-> mods, pushes |-> << >>, trace |-> << >>,
     err |-> "none"]

SiblingsOf(sibs, d) == IF d \in DOMAIN sibs THEN sibs[d] ELSE EmptyDict
HasSibling(sibs, d, name) == name \in DOMAIN SiblingsOf(sibs, d)

\* The installed containers the engine reaches from ds through registered
\* subdatasets, ds included.
Subdatasets(inst, reg, ds) ==
    {d \in inst : /\ IsPrefix(ds, d)
                  /\ \A n \in (Len(ds) + 1)..Len(d) :
                        /\ SubSeq(d, 1, n) \in inst
                        /\ <<SubSeq(d, 1, n - 1), SubSeq(d, 1, n)>> \in reg}

\* The containers a call on ds covers.
Covered(inst, reg, ds, recursive) ==
    IF recursive THEN Subdatasets(inst, reg, ds) ELSE {ds}

\* A set of paths as a sequence, every path after its ancestors.
RECURSIVE TopDown(_)
TopDown(ps) ==
    IF ps = {} THEN << >>
    ELSE LET From(p) == <<p>> \o TopDown(ps \ {p})
         IN  From(CHOOSE p \in ps : \A q \in ps : IsPrefix(q, p) => q = p)

\* Dataset.create_sibling_gin: a repository per covered container, named after
\* reponame and the container's path below ds; a container that has the
\* sibling already is left alone unless existing says reconfigure.
CreateSiblingGin(P, targets, ds, reponame, name, access_protocol, existing) ==
    LET Made(d, repo) ==
            DictSet(SiblingsOf(P.siblings, d), name,
                    [repo |-> repo, url |-> GinSiblingUrl(access_protocol, repo)])
    IN  [P EXCEPT !.siblings =
                      [d \in (DOMAIN P.siblings) \cup targets |->
                          IF d \in targets /\ (existing = "reconfigure"
                                               \/ ~HasSibling(P.siblings, d, name))
                          THEN Made(d, RepoName(reponame, RelativeTo(d, ds)))
                          ELSE P.siblings[d]],
                  !.trace = Append(@, Call("create_sibling_gin", ds, reponame))]

\* Dataset.siblings('query', name=...): the covered containers that have it.
SiblingsQuery(P, targets, name) == {d \in targets : HasSibling(P.siblings, d, name)}

\* The loop over the queried siblings: url and datalad-url of the entry's
\* submodule record in its parent; the root's own entry is skipped.
RECURSIVE SetUrlProperties(_, _, _, _, _)
SetUrlProperties(P, inst, reg, entries, name) ==
    IF entries = << >> THEN P
    ELSE LET Set(d, url) ==
                 [P EXCEPT !.gitmodules =
                               IF <<Parent(d), d>> \in reg
                               THEN DictSet(@, <<Parent(d), d>>,
                                            [url |-> HttpsForm(url), datalad_url |-> url])
                               ELSE @,
                           !.trace = Append(@, Call("subdatasets", Parent(d), PosixJoin(d)))]
             Entry(d) ==
                 IF d = RootPath THEN SetUrlProperties(P, inst, reg, Tail(entries), name)
                 ELSE IF Parent(d) \notin inst THEN Raise(P, "NoDatasetFound")
                 ELSE SetUrlProperties(Set(d, P.siblings[d][name].url), inst, reg,
                                       Tail(entries), name)
         IN  Entry(Head(entries))

\* Dataset.save then Dataset.push(to=...): the push fails on a container that
\* has no sibling of that name.
SavePush(P, d, to, recursive, data) ==
    IF ~HasSibling(P.siblings, d, to)
    THEN Raise(Traced(P, Call("save", d, "GIN publishing")), "IncompleteResultsError")
    ELSE [P EXCEPT !.pushes = Append(@, [path |-> d, to |-> to, recursive |-> recursive,
                                         data |-> data]),
                   !.trace = @ \o <<Call("save", d, "GIN publishing"),
                                    Call("push", d, data)>>]

\* A publish that saves and pushes the parent before the container itself.
PublishParentFirst(P, inst, reg, sibling_name, repo_name, dataset, access_protocol, recursive, existing) ==
    LET Pushed(rel, ds, Q) ==
            IF Q.err # "none" THEN Q
            ELSE SavePush(Q, ds, sibling_name, recursive, "anything")
        Parented(rel, ds, Q) ==
            Pushed(rel, ds, IF Q.err # "none" \/ rel = << >> THEN Q
                            ELSE SavePush(Q, Parent(ds), sibling_name, FALSE, "nothing"))
        Queried(rel, ds, targets, Q) ==
            Parented(rel, ds,
                     SetUrlProperties(Q, inst, reg,
                                      TopDown(SiblingsQuery(Q, targets, sibling_name)),
                                      sibling_name))
        Created(rel, ds, name) ==
            IF ds \notin inst
            THEN Raise(Traced(P, Call("create_sibling_gin", ds, name)), "NoDatasetFound")
            ELSE Queried(rel, ds, Covered(inst, reg, ds, recursive),
                         CreateSiblingGin(P, Covered(inst, reg, ds, recursive), ds, name,
                                          sibling_name, access_protocol, existing))
        Named(ep) ==
            IF ep.err # "none" THEN Raise(P, ep.err)
            ELSE Created(ep.path, ep.absolute_path,
                         RepoName(IF repo_name = NoName THEN GinRepo ELSE repo_name,
                                  ep.path))
    IN  Named(EnsurePaths(inst, RootPath, dataset))

\* DataManager.publish_gin_sibling: name the repository, create the sibling,
\* record its URLs in the parents, save and push the container, then save and
\* push its parent without content.
PublishGinSiblingCall(P, inst, reg, sibling_name, repo_name, dataset, access_protocol, recursive, existing) ==
    LET Parented(rel, ds, Q) ==
            IF Q.err # "none" \/ rel = << >> THEN Q
            ELSE SavePush(Q, Parent(ds), sibling_name, FALSE, "nothing")
        Pushed(rel, ds, Q) ==
            Parented(rel, ds, IF Q.err # "none" THEN Q
                              ELSE SavePush(Q, ds, sibling_name, recursive, "anything"))
        Queried(rel, ds, targets, Q) ==
            Pushed(rel, ds,
                   SetUrlProperties(Q, inst, reg,
                                    TopDown(SiblingsQuery(Q, targets, sibling_name)),
                                    sibling_name))
        Created(rel, ds, name) ==
            IF ds \notin inst
            THEN Raise(Traced(P, Call("create_sibling_gin", ds, name)), "NoDatasetFound")
            ELSE Queried(rel, ds, Covered(inst, reg, ds, recursive),
                         CreateSiblingGin(P, Covered(inst, reg, ds, recursive), ds, name,
                                          sibling_name, access_protocol, existing))
        Named(ep) ==
            IF ep.err # "none" THEN Raise(P, ep.err)
            ELSE Created(ep.path, ep.absolute_path,
                         RepoName(IF repo_name = NoName THEN GinRepo ELSE repo_name,
                                  ep.path))
    IN  Named(EnsurePaths(inst, RootPath, dataset))

PublishArgs(sibling_name, repo_name, dataset, access_protocol, recursive, existing) ==
    [sibling_name |-> sibling_name, repo_name |-> repo_name, dataset |-> dataset,
     access_protocol |-> access_protocol, recursive |-> recursive,
     existing |-> existing]

PublishGinSibling(sibling_name, repo_name, dataset, access_protocol, recursive, existing) ==
    LET Done(P) ==
            /\ siblings' = P.siblings
            /\ gitmodules' = P.gitmodules
            /\ pushes' = P.pushes
            /\ last' = Finished("publish_gin_sibling",
                                PublishArgs(sibling_name, repo_name, dataset,
                                            access_protocol, recursive, existing),
                                P, << >>, FALSE)
            /\ now' = now + 1
    IN  /\ Done(PublishGinSiblingCall(PublishState(siblings, gitmodules), installed,
                                      registered, sibling_name, repo_name, dataset,
                                      access_protocol, recursive, existing))
        /\ UNCHANGED <<fs, installed, registered, md, metaVars, guiVars>>

(***************************************************************************)
(* SpecPublish: publishing containers of a provisioned tree                *)
(***************************************************************************)
\* The tree init_tree(project="p", campaign="c", experiment="e1") followed by
\* init_tree(project="p-c") leaves.
PublishProvisioned ==
    InitTreeCall(TreeState(GuiProvisioned.fs, GuiProvisioned.installed,
                           GuiProvisioned.registered, GuiProvisioned.md),
                 "p-c", NoName, NoName, FALSE, 1)

InitPublish ==
    /\ fs = PublishProvisioned.fs
    /\ installed = PublishProvisioned.installed
    /\ registered = PublishProvisioned.registered
    /\ md = PublishProvisioned.md
    /\ last = NoCall
    /\ handle = ClosedHandle
    /\ mlast = NoAdd
    /\ got = NoGet
    /\ running = << >>
    /\ queued = << >>
    /\ siblings = EmptyDict
    /\ gitmodules = EmptyDict
    /\ pushes = << >>
    /\ now = 0

SiblingNames == {"gin"}
RepoNames == {NoName, "other"}
PublishDatasets ==
    {NoPath, AbsPath(ProjectPath("p")), AbsPath(CampaignPath("p", "c")),
     AbsPath(ProjectPath("p-c")), AbsPath(ProjectPath("q")), AbsPath(<<"in">>)}
AccessProtocols == {"ssh", "https-ssh"}
ExistingPolicies == {"skip", "reconfigure"}
MaxPublishes == 2

NextPublish ==
    \E sibling_name \in SiblingNames, repo_name \in RepoNames,
       dataset \in PublishDatasets, access_protocol \in AccessProtocols,
       recursive \in BOOLEAN, existing \in ExistingPolicies :
          /\ now < MaxPublishes
          /\ PublishGinSibling(sibling_name, repo_name, dataset, access_protocol,
                               recursive, existing)

SpecPublish == InitPublish /\ [][NextPublish]_vars

(***************************************************************************)
(* Properties of publish_gin_sibling                                       *)
(***************************************************************************)
\* The last call was a publish that got as far as naming the repository.
Published == last.op = "publish_gin_sibling" /\ last.trace # << >>

\* The container it was called on, relative to the root, and the name asked for.
PublishedRel == RelativeTo(last.trace[1].path, RootPath)
PublishedName == last.trace[1].arg
PublishedBase ==
    IF last.args.repo_name = NoName THEN GinRepo ELSE last.args.repo_name

\* C10 as stated: for a container that is not the root the repository name is
\* the root repo name followed by the container's relative path segments joined
\* by slashes, whatever attaches the suffix to the name; for the root it is the
\* repo name unchanged.
C10_RepoNameSlashJoined ==
    Published =>
        IF PublishedRel = << >> THEN PublishedName = PublishedBase
        ELSE \E sep \in {"", "/", "-"} :
                PublishedName = PublishedBase \o sep \o PosixJoin(PublishedRel)

\* C10 amended: for a container that is not the root the repository name is the
\* root repo name, a hyphen, and the container's relative path segments joined
\* by hyphens; for the root it is the repo name unchanged.
C10_RepoNameHyphenJoined ==
    Published =>
        IF PublishedRel = << >> THEN PublishedName = PublishedBase
        ELSE PublishedName = PublishedBase \o "-" \o HyphenJoin(PublishedRel)

\* A container two levels below the root was published without error.
C10_Witness ==
    /\ Published
    /\ last.err = "none"
    /\ Len(PublishedRel) = 2
    /\ PublishedName = "repo-p-c"

\* C11: for a fixed root repo name, two containers with different relative
\* paths never get the same repository name: of two consecutive publishes
\* under the same root repo name on different containers, the second never
\* asks for the name the first asked for.
C11_DistinctRepoNames ==
    [][(/\ Published
        /\ Published'
        /\ PublishedBase' = PublishedBase
        /\ PublishedRel' # PublishedRel)
         => PublishedName' # PublishedName]_vars

(***************************************************************************)
(* DataManager.publish_lazy_to_remote                                      *)
(***************************************************************************)
\* The outcome of the climb: the state, the container chosen and the sibling
\* name to publish under.
Climbed(P, chosen, name) == [state |-> P, chosen |-> chosen, name |-> name]

\* The climb that goes to the managed root whatever siblings it passes.
RECURSIVE ClimbToRoot(_, _, _, _)
ClimbToRoot(P, inst, ds_path, sibling_name) ==
    IF ds_path \notin inst THEN Climbed(Raise(P, "RuntimeError"), ds_path, sibling_name)
    ELSE IF ds_path = RootPath \/ Parent(ds_path) = ds_path
    THEN Climbed(P, ds_path, sibling_name)
    ELSE ClimbToRoot(P, inst, Parent(ds_path), sibling_name)

\* The while loop: from ds_path upwards to the first container that has the
\* sibling or an origin, or to the root; every container on the way must be
\* installed, and the loop gives up at the filesystem root.
RECURSIVE Climb(_, _, _, _)
Climb(P, inst, ds_path, sibling_name) ==
    LET Queried(Q) ==
            IF HasSibling(Q.siblings, ds_path, sibling_name)
            THEN Climbed(Q, ds_path, sibling_name)
            ELSE IF HasSibling(Q.siblings, ds_path, "origin")
            THEN Climbed(Q, ds_path, "origin")
            ELSE IF ds_path = RootPath THEN Climbed(Q, ds_path, sibling_name)
            ELSE IF Parent(ds_path) = ds_path
            THEN Climbed(Raise(Q, "RuntimeError"), ds_path, sibling_name)
            ELSE Climb(Q, inst, Parent(ds_path), sibling_name)
    IN  IF ds_path \notin inst
        THEN Climbed(Raise(P, "RuntimeError"), ds_path, sibling_name)
        ELSE Queried(Traced(P, Call("siblings", ds_path, "query")))

\* DataManager.publish_lazy_to_remote: climb, one recursive publish from the
\* chosen container, then a recursive save of it.
PublishLazyToRemoteCall(P, inst, reg, sibling_name, repo_name, dataset, access_protocol, existing) ==
    LET Saved(chosen, Q) ==
            IF Q.err # "none" THEN Q
            ELSE Traced(Q, Call("save", chosen, "Publish subtree"))
        Chosen(C) ==
            IF C.state.err # "none" THEN C.state
            ELSE Saved(C.chosen,
                       PublishGinSiblingCall(C.state, inst, reg, C.name, repo_name,
                                             AbsPath(C.chosen), access_protocol, TRUE,
                                             existing))
        From(start) ==
            IF start \notin inst THEN Raise(P, "RuntimeError")
            ELSE Chosen(Climb(P, inst, start, sibling_name))
    IN  From(Resolve(IF dataset.given THEN dataset.parts ELSE RootPath))

PublishLazyToRemote(sibling_name, repo_name, dataset, access_protocol, existing) ==
    LET Done(P) ==
            /\ siblings' = P.siblings
            /\ gitmodules' = P.gitmodules
            /\ pushes' = P.pushes
            /\ last' = Finished("publish_lazy_to_remote",
                                PublishArgs(sibling_name, repo_name, dataset,
                                            access_protocol, TRUE, existing),
                                P, << >>, FALSE)
            /\ now' = now + 1
    IN  /\ Done(PublishLazyToRemoteCall(PublishState(siblings, gitmodules), installed,
                                        registered, sibling_name, repo_name, dataset,
                                        access_protocol, existing))
        /\ UNCHANGED <<fs, installed, registered, md, metaVars, guiVars>>

(***************************************************************************)
(* DataManager.push_to_remotes                                             *)
(***************************************************************************)
NoPublicationTarget == "RuntimeError: No publication target"

\* Dataset.push(to=...): it succeeds only on a container that has the sibling
\* (with to=None, any sibling to fall on), and only if the transfer goes through.
PushSucceeds(sibs, d, to, fails) ==
    /\ ~fails
    /\ IF to = NoName THEN SiblingsOf(sibs, d) # EmptyDict ELSE HasSibling(sibs, d, to)

\* A fallback that prefers 'origin'.
FallbackOriginFirst(sibs, d) ==
    IF HasSibling(sibs, d, "origin") THEN "origin"
    ELSE IF HasSibling(sibs, d, "gin") THEN "gin"
    ELSE NoName

\* The alternate sibling: 'gin' if the container has it, else 'origin', else None.
Fallback(sibs, d) ==
    IF HasSibling(sibs, d, "gin") THEN "gin"
    ELSE IF HasSibling(sibs, d, "origin") THEN "origin"
    ELSE NoName

\* One push attempt: the call is traced, the push is recorded when it succeeds.
PushAttempt(P, d, to, recursive, fails) ==
    IF PushSucceeds(P.siblings, d, to, fails)
    THEN [P EXCEPT !.pushes = Append(@, [path |-> d, to |-> to, recursive |-> recursive,
                                         data |-> "anything"]),
                   !.trace = Append(@, Call("push", d, to))]
    ELSE Raise(Traced(P, Call("push", d, to)), "IncompleteResultsError")

\* DataManager.push_to_remotes: save, push to the named sibling, and on any
\* failure of that push query the siblings and push once to the fallback.
PushToRemotesCall(P, inst, dataset, recursive, message, sibling_name, fails1, fails2) ==
    LET Retried(d, Q, fallback) ==
            IF fallback = NoName THEN Raise(Q, NoPublicationTarget)
            ELSE PushAttempt(Raise(Q, "none"), d, fallback, recursive, fails2)
        Tried(d, Q) ==
            IF Q.err = "none" THEN Q
            ELSE Retried(d, Traced(Q, Call("siblings", d, "query")), Fallback(Q.siblings, d))
        Saved(d) ==
            IF d \notin inst
            THEN Raise(Traced(P, Call("save", d, message)), "NoDatasetFound")
            ELSE Tried(d, PushAttempt(Traced(P, Call("save", d, message)), d,
                                      sibling_name, recursive, fails1))
    IN  Saved(Resolve(dataset.parts))

PushArgs(dataset, recursive, message, sibling_name) ==
    [dataset |-> dataset, recursive |-> recursive, message |-> message,
     sibling_name |-> sibling_name]

PushToRemotes(dataset, recursive, message, sibling_name, fails1, fails2) ==
    LET Done(P) ==
            /\ pushes' = P.pushes
            /\ last' = Finished("push_to_remotes",
                                PushArgs(dataset, recursive, message, sibling_name),
                                P, << >>, FALSE)
            /\ now' = now + 1
    IN  /\ Done(PushToRemotesCall(PublishState(siblings, gitmodules), installed, dataset,
                                  recursive, message, sibling_name, fails1, fails2))
        /\ UNCHANGED <<fs, installed, registered, md, metaVars, guiVars, siblings,
                       gitmodules>>

(***************************************************************************)
(* SpecLazy: lazy publishing on a tree that holds clones, beside datasets   *)
(* that lie outside the managed root                                       *)
(***************************************************************************)
\* Datasets the user keeps outside the managed root: one with a subdataset.
External == <<"ext">>
ExternalSub == <<"ext", "sub">>

InitLazy ==
    /\ fs = [q \in (DOMAIN GuiProvisioned.fs) \cup {External, ExternalSub} |->
                IF q \in DOMAIN GuiProvisioned.fs THEN GuiProvisioned.fs[q] ELSE DirNode]
    /\ installed = GuiProvisioned.installed \cup {External, ExternalSub}
    /\ registered = GuiProvisioned.registered \cup {<<External, ExternalSub>>}
    /\ md = GuiProvisioned.md
    /\ last = NoCall
    /\ handle = ClosedHandle
    /\ mlast = NoAdd
    /\ got = NoGet
    /\ running = << >>
    /\ queued = << >>
    /\ siblings = EmptyDict
    /\ gitmodules = EmptyDict
    /\ pushes = << >>
    /\ now = 0

LazyCloneDests == {ProjectPath("q"), <<"ext", "y">>}
LazyPublishDatasets == {NoPath, AbsPath(ProjectPath("p")), AbsPath(ProjectPath("q"))}
PushDatasets == {AbsPath(ProjectPath("p")), AbsPath(ProjectPath("q")), AbsPath(<<"in">>)}
PushMessages == {NoName, "m"}
PushSiblings == {NoName, "gin", "backup"}
LazyDatasets ==
    {NoPath, AbsPath(ProjectPath("p")), AbsPath(ExperimentPath("p", "c", "e1")),
     AbsPath(ProjectPath("q")), AbsPath(ExternalSub), AbsPath(<<"ext", "y">>),
     AbsPath(<<"in">>)}
LazyUrlRoots == {NoUrlRoot, UrlRoot("alice", "myhost", FALSE)}
MaxLazyCalls == 3

NextLazy ==
    \/ \E dest \in LazyCloneDests, source_url_root \in LazyUrlRoots :
          now < MaxLazyCalls /\ CloneFromGin(dest, source_url_root)
    \/ \E dataset \in LazyPublishDatasets, recursive \in BOOLEAN :
          /\ now < MaxLazyCalls
          /\ PublishGinSibling("gin", NoName, dataset, "ssh", recursive, "skip")
    \/ \E dataset \in LazyDatasets, repo_name \in RepoNames :
          /\ now < MaxLazyCalls
          /\ PublishLazyToRemote("gin", repo_name, dataset, "ssh", "skip")
    \/ \E dataset \in PushDatasets, message \in PushMessages, to \in PushSiblings :
          \E fails1, fails2 \in BOOLEAN :
             /\ now < MaxLazyCalls
             /\ PushToRemotes(dataset, TRUE, message, to, fails1, fails2)

SpecLazy == InitLazy /\ [][NextLazy]_vars

(***************************************************************************)
(* Properties of publish_lazy_to_remote                                    *)
(***************************************************************************)
\* The container the last lazy publish started from.
LazyStart == Resolve(IF last.args.dataset.given THEN last.args.dataset.parts ELSE RootPath)

\* start and its ancestors, up to the filesystem root.
Ups(start) == {SubSeq(start, 1, n) : n \in 0..Len(start)}

\* A container the climb stops at, given the siblings before the call.
StopsAt(sibs, d, name) ==
    HasSibling(sibs, d, name) \/ HasSibling(sibs, d, "origin") \/ d = RootPath

\* The nearest such container among start and its ancestors.
NearestStop(sibs, start, name) ==
    CHOOSE d \in Ups(start) :
        /\ StopsAt(sibs, d, name)
        /\ \A e \in Ups(start) : StopsAt(sibs, e, name) => Len(e) <= Len(d)

\* The containers the climb looks at on its way there.
Visited(sibs, start, name) ==
    {d \in Ups(start) : Len(d) >= Len(NearestStop(sibs, start, name))}

\* The sibling name the publish runs under.
PublishedUnder(sibs, d, name) ==
    IF ~HasSibling(sibs, d, name) /\ HasSibling(sibs, d, "origin") THEN "origin" ELSE name

\* The positions of the sibling creations in a trace.
CreateCalls(trace) == {i \in DOMAIN trace : trace[i].call = "create_sibling_gin"}

\* C12: a lazy publish started inside the managed tree runs exactly one
\* publish, from the nearest container among the start and its ancestors that
\* has the sibling or an origin, else from the root, and that publish is
\* recursive: every installed container registered below it has the sibling
\* afterwards. When the start or a visited ancestor is not installed the call
\* fails and creates, rewrites and pushes nothing.
C12_LazyPublishesFromNearest ==
    [][(last'.op = "publish_lazy_to_remote" /\ IsPrefix(RootPath, LazyStart'))
         => LET Body(start, name) ==
                    IF Visited(siblings, start, name) \subseteq installed
                    THEN /\ Cardinality(CreateCalls(last'.trace)) = 1
                         /\ \A i \in CreateCalls(last'.trace) :
                               last'.trace[i].path = NearestStop(siblings, start, name)
                         /\ \A d \in Subdatasets(installed, registered,
                                                 NearestStop(siblings, start, name)) :
                               HasSibling(siblings', d,
                                          PublishedUnder(siblings,
                                                         NearestStop(siblings, start, name),
                                                         name))
                    ELSE /\ last'.err # "none"
                         /\ CreateCalls(last'.trace) = {}
                         /\ siblings' = siblings
                         /\ gitmodules' = gitmodules
                         /\ pushes' = << >>
            IN  Body(LazyStart', last'.args.sibling_name)]_vars

\* C12 happens: a lazy publish started at an experiment that has no sibling
\* ran its publish from the project above it, which had one.
C12_Witness ==
    /\ last.op = "publish_lazy_to_remote"
    /\ LazyStart = ExperimentPath("p", "c", "e1")
    /\ \E i \in CreateCalls(last.trace) : last.trace[i].path = ProjectPath("p")
    /\ HasSibling(siblings, ExperimentPath("p", "c", "e1"), "gin")

\* The engine calls of a trace that change a container or a remote.
Mutations(trace) ==
    {i \in DOMAIN trace :
        trace[i].call \in {"create_sibling_gin", "subdatasets", "save", "push"}}

\* C13: a lazy publish whose start is neither the managed root nor below it
\* fails, and it creates no sibling, rewrites no URL, and saves and pushes
\* nothing, on any container.
C13_LazyStaysInsideRoot ==
    [][(last'.op = "publish_lazy_to_remote" /\ ~IsPrefix(RootPath, LazyStart'))
         => /\ last'.err # "none"
            /\ Mutations(last'.trace) = {}
            /\ siblings' = siblings
            /\ gitmodules' = gitmodules
            /\ pushes' = << >>]_vars

\* C13 happens: beside a clone outside the managed root, a lazy publish was
\* started at a dataset outside the root that has no sibling; the climb went
\* on to the dataset above it and the call failed.
C13_Witness ==
    /\ last.op = "publish_lazy_to_remote"
    /\ LazyStart = ExternalSub
    /\ last.err # "none"
    /\ Len(last.trace) = 2
    /\ HasSibling(siblings, <<"ext", "y">>, "origin")

(***************************************************************************)
(* Properties of push_to_remotes                                           *)
(***************************************************************************)
\* The container of the last push_to_remotes call, and its push attempts.
PushedDataset == Resolve(last.args.dataset.parts)
PushCalls(trace) == {i \in DOMAIN trace : trace[i].call = "push"}

\* C14: push_to_remotes on an installed container saves first and then
\* attempts a push to the named sibling. When that push succeeds nothing more
\* is attempted; when it fails there is exactly one more attempt, to 'gin' if
\* the container has a sibling of that name, else to 'origin', and when it has
\* neither the call fails with NoPublicationTarget without a second attempt.
\* No call attempts more than two pushes.
C14_PushFallsBackOnce ==
    (last.op = "push_to_remotes" /\ PushedDataset \in installed)
      => LET Body(T, P, d) ==
                 /\ T[1].call = "save"
                 /\ \A i \in P : i > 1
                 /\ Cardinality(P) \in {1, 2}
                 /\ \E i \in P : /\ \A j \in P : i <= j
                                 /\ T[i].arg = last.args.sibling_name
                 /\ (Cardinality(P) = 1 /\ Len(pushes) = 1)
                       => /\ last.err = "none"
                          /\ pushes[1].to = last.args.sibling_name
                 /\ (Cardinality(P) = 1 /\ Len(pushes) = 0)
                       => /\ last.err = NoPublicationTarget
                          /\ ~HasSibling(siblings, d, "gin")
                          /\ ~HasSibling(siblings, d, "origin")
                 /\ Cardinality(P) = 2
                       => /\ \E i \in P :
                                /\ \A j \in P : j <= i
                                /\ T[i].arg = (IF HasSibling(siblings, d, "gin")
                                               THEN "gin" ELSE "origin")
                                /\ HasSibling(siblings, d, T[i].arg)
                          /\ Len(pushes) <= 1
                          /\ (last.err = "none") = (Len(pushes) = 1)
                          /\ \A k \in DOMAIN pushes :
                                pushes[k].to = (IF HasSibling(siblings, d, "gin")
                                                THEN "gin" ELSE "origin")
         IN  Body(last.trace, PushCalls(last.trace), PushedDataset)

\* C14 happens: on a container that has both an 'origin' and a 'gin' sibling
\* the push to a sibling it does not have failed, and the second attempt
\* went through.
C14_Witness ==
    /\ last.op = "push_to_remotes"
    /\ last.args.sibling_name = "backup"
    /\ HasSibling(siblings, PushedDataset, "gin")
    /\ HasSibling(siblings, PushedDataset, "origin")
    /\ Cardinality(PushCalls(last.trace)) = 2
    /\ last.err = "none"
    /\ Len(pushes) = 1

(***************************************************************************)
(* Properties of the submodule records publish_gin_sibling writes          *)
(***************************************************************************)
\* The HTTPS form of a sibling URL: user@host:path[.git] is https://host/path,
\* the path below the host whether or not it is written with a "/" after the
\* colon; an HTTPS URL is its own HTTPS form, with or without its .git.
IsHttpsFormOf(h, u) ==
    IF u.scheme = "ssh" THEN h = HttpsUrl(u.host, FALSE, u.path, FALSE)
    ELSE h \in {u, [u EXCEPT !.dotgit = FALSE]}

\* The last publish got through the loop over the queried siblings.
Rewrote == Published /\ last.err \in {"none", "IncompleteResultsError"}

\* C15: after publish_gin_sibling, every covered container other than the root
\* that has the sibling and is registered in its parent has, in the parent's
\* submodule record, datalad-url equal to the sibling URL and url equal to its
\* HTTPS form; no record is written for the root itself.
C15_SubmoduleUrlsRewritten ==
    Rewrote =>
      LET Body(ds, name) ==
              /\ \A d \in Covered(installed, registered, ds, last.args.recursive) :
                    (HasSibling(siblings, d, name) /\ d # RootPath
                       /\ <<Parent(d), d>> \in registered)
                    => /\ <<Parent(d), d>> \in DOMAIN gitmodules
                       /\ gitmodules[<<Parent(d), d>>].datalad_url = siblings[d][name].url
                       /\ IsHttpsFormOf(gitmodules[<<Parent(d), d>>].url,
                                        siblings[d][name].url)
              /\ \A k \in DOMAIN gitmodules : k[2] # RootPath
              /\ \A i \in DOMAIN last.trace :
                    last.trace[i].call = "subdatasets" => last.trace[i].arg # PosixJoin(RootPath)
      IN  Body(last.trace[1].path, last.args.sibling_name)

(***************************************************************************)
(* Properties of the @id and identifier of a record                        *)
(***************************************************************************)
\* The record a handle holds under its key has an @id and an identifier.
Stamped(h) ==
    /\ h.open
    /\ h.path_key \in DOMAIN h.meta
    /\ h.meta[h.path_key] # NoneValue
    /\ {"@id", "identifier"} \subseteq DOMAIN h.meta[h.path_key].extracted_metadata

\* C16: an add on a key that holds a record leaves a record whose @id and
\* identifier are the ones the key held before, whatever the mode and the
\* payload; so after any sequence of adds they are those of the first.
C16_IdStableAcrossRewrites ==
    [][(mlast'.done /\ mlast'.adds = mlast.adds + 1 /\ Stamped(handle))
         => /\ Stamped(handle')
            /\ handle'.meta[handle.path_key].extracted_metadata["@id"]
                  = handle.meta[handle.path_key].extracted_metadata["@id"]
            /\ handle'.meta[handle.path_key].extracted_metadata["identifier"]
                  = handle.meta[handle.path_key].extracted_metadata["identifier"]]_vars

\* The node type of a container, by its depth below the managed root.
NodeTypeOf(d) ==
    IF Len(d) = Len(RootPath) THEN "user"
    ELSE IF Len(d) = Len(RootPath) + 1 THEN "project"
    ELSE IF Len(d) = Len(RootPath) + 2 THEN "campaign"
    ELSE "experiment"

CopySources == {SourceFile, SourceDir, SourceDir \o <<"f">>, SourceMissing}
CopyDestRels == {<< >>, <<"d">>}
MaxCopies == 2

NextCopy ==
    \E source \in CopySources, dest_rel \in CopyDestRels, rename \in Renames :
       \E category \in Categories, move \in BOOLEAN, overwrite \in BOOLEAN :
          /\ now < MaxCopies
          /\ InstallIntoTree(source, "p", "c", "e1", category, dest_rel, rename, move,
                             NoPayload, overwrite)

SpecCopy == Constructed /\ [][NextCopy]_vars

(***************************************************************************)
(* Properties of the copy or move of an install                            *)
(***************************************************************************)
\* Everything at src and below it is at dst, at the matching path and with the
\* same content, in g as it was in f.
Carried(f, src, g, dst) ==
    \A q \in DOMAIN f :
        IsPrefix(src, q)
          => /\ (dst \o RelativeTo(q, src)) \in DOMAIN g
             /\ g[dst \o RelativeTo(q, src)] = f[q]

\* C18: a successful install with move=true leaves nothing at the source's
\* location and the source's whole content at the final target; one with
\* move=false leaves the source as it was. A directory tree that is not empty
\* is moved as an empty one or a file is: its move does not fail on the
\* removal of the source.
C18_MoveRemovesSource ==
    [][(last'.op = "install_into_tree" /\ Exists(fs, last'.args.source))
         => /\ (last'.err = "none" /\ last'.args.move)
                  => /\ ~Exists(fs', last'.args.source)
                     /\ Carried(fs, last'.args.source, fs', LastTarget')
            /\ (last'.err = "none" /\ ~last'.args.move)
                  => Content(fs', last'.args.source) = Content(fs, last'.args.source)
            /\ ~(last'.args.move /\ IsDir(fs, last'.args.source)
                   /\ last'.err = "OSError")]_vars

LastDestPath == DestPath(LastExperiment, last.args.category, last.args.dest_rel)

\* C20: an install of present content whose dest_rel names a sub-path of the
\* category that does not exist ends without error, the sub-path is a
\* directory afterwards, and the content is at
\* category/dest_rel/(rename or source name).
C20_DestRelCreated ==
    [][(/\ last'.op = "install_into_tree"
        /\ last'.args.category \in ALLOWED_CATEGORIES
        /\ Exists(fs, last'.args.source)
        /\ last'.args.dest_rel # << >>
        /\ \A n \in DOMAIN last'.args.dest_rel : last'.args.dest_rel[n] # ".."
        /\ ~Exists(fs, LastDestPath'))
         => /\ last'.err = "none"
            /\ IsDir(fs', LastDestPath')
            /\ LastTarget' = LastDestPath'
                  \o <<IF last'.args.rename # NoName THEN last'.args.rename
                       ELSE BaseName(last'.args.source)>>
            /\ Carried(fs, last'.args.source, fs', LastTarget')]_vars

(***************************************************************************)
(* Properties of the levels of the tree                                    *)
(***************************************************************************)
\* C21: every installed container is the root, a project, a campaign or an
\* experiment, that is at most three levels below the root; the category
\* directory of an install and whatever lies below it are plain directories
\* and files of the experiment container.
C21_OnlyLevelsAreContainers ==
    /\ \A d \in installed :
          IsPrefix(RootPath, d) /\ Len(d) <= Len(RootPath) + 3
    /\ \A r \in registered : r[2] \in installed /\ Len(r[2]) <= Len(RootPath) + 3
    /\ Installed
          => /\ IsDir(fs, LastExperiment \o <<last.args.category>>)
             /\ \A q \in DOMAIN fs :
                   IsPrefix(LastExperiment \o <<last.args.category>>, q)
                     => q \notin installed

\* C21 happens: an install put a folder with a file below the category of an
\* experiment; the experiment is a container, the category is a directory.
C21_Witness ==
    /\ Installed
    /\ LastExperiment \in installed
    /\ IsDir(fs, LastExperiment \o <<"raw">>)
    /\ IsFile(fs, LastExperiment \o <<"raw", "d", "f">>)

\* The name init_tree gives the container at d: the user name for the root,
\* else the name of the level, which is the last segment of its path.
LevelName(d) == IF d = RootPath THEN UserName ELSE BaseName(d)

C23_MissingSourceRejected ==
    [][(last'.op = "install_into_tree" /\ ~Exists(fs, last'.args.source))
         => /\ last'.err = (IF last'.args.category \in ALLOWED_CATEGORIES
                            THEN SourceNotFound ELSE InvalidCategory)
            /\ last'.trace = << >>
            /\ fs' = fs
            /\ installed' = installed
            /\ registered' = registered
            /\ md' = md]_vars

\* C23 happens: on a root that holds no container yet, an install of a
\* missing source into an allowed category was rejected.
C23_Witness ==
    /\ last.op = "install_into_tree"
    /\ last.args.source = SourceMissing
    /\ last.args.category = "raw"
    /\ last.err = SourceNotFound
    /\ installed = {}

(***************************************************************************)
(* Resolving a path to its container                                       *)
(***************************************************************************)
\* (None, None), and a found container with the path relative to it.
NotFound == [none |-> TRUE, ds_root |-> << >>, rel |-> << >>]
Found(ds_root, rel) == [none |-> FALSE, ds_root |-> ds_root, rel |-> rel]

\* (p / ".datalad").exists() or (p / ".git").exists(): the markers the engine
\* leaves in a container it created or cloned.
IsDatasetDir(S, p) == p \in S.installed

\* The while loop of both resolvers: the first container from p upwards, the
\* search ending after the managed root (or its parent) and at the top of the
\* filesystem. dm_root is NoPath where the front-end has no manager yet.
RECURSIVE WalkUp(_, _, _)
WalkUp(S, p, dm_root) ==
    IF IsDir(S.fs, p) /\ IsDatasetDir(S, p) THEN Found(p, << >>)
    ELSE IF dm_root.given /\ (p = dm_root.parts \/ p = Parent(dm_root.parts))
    THEN NotFound
    ELSE IF Parent(p) = p THEN NotFound
    ELSE WalkUp(S, Parent(p), dm_root)

\* helpers.find_dataset_root_and_rel: rel = path.relative_to(ds_root)
FindDatasetRootAndRelCall(S, path, dm_root) ==
    LET From(at) == IF at.none THEN NotFound
                    ELSE Found(at.ds_root, RelativeTo(Resolve(path), at.ds_root))
    IN  IF ~Exists(S.fs, Resolve(path)) THEN NotFound
        ELSE From(WalkUp(S, IF IsDir(S.fs, Resolve(path)) THEN Resolve(path)
                            ELSE Parent(Resolve(path)),
                         AbsPath(Resolve(dm_root))))

\* What the front-end's resolver gives for the container root itself.
GuiRootRel == <<"..", "roadmap_datamanager">>

\* MainWindow._find_dataset_root_and_rel:
\* rel = Path("../roadmap_datamanager") if path == ds_root else path.relative_to(ds_root)
GuiFindDatasetRootAndRelCall(S, path, dm_root) ==
    LET From(at) == IF at.none THEN NotFound
                    ELSE IF path = at.ds_root THEN Found(at.ds_root, GuiRootRel)
                    ELSE Found(at.ds_root, RelativeTo(path, at.ds_root))
    IN  IF ~Exists(S.fs, path) THEN NotFound
        ELSE From(WalkUp(S, IF IsDir(S.fs, path) THEN path ELSE Parent(path),
                         dm_root))

FindDatasetRootAndRel(path) ==
    /\ Returns("find_dataset_root_and_rel", [NoArgs EXCEPT !.source = path],
               Current, FindDatasetRootAndRelCall(Current, path, RootPath), FALSE)
    /\ UNCHANGED <<metaVars, guiVars, remoteVars>>

\* self.dm.root is the manager's root, None before a manager is set.
GuiFindDatasetRootAndRel(path, has_dm) ==
    /\ Returns("_find_dataset_root_and_rel",
               [NoArgs EXCEPT !.source = path, !.force = has_dm], Current,
               GuiFindDatasetRootAndRelCall(Current, path,
                   IF has_dm THEN AbsPath(RootPath) ELSE NoPath), FALSE)
    /\ UNCHANGED <<metaVars, guiVars, remoteVars>>

(***************************************************************************)
(* SpecResolve: a tree is built, content installed, and paths resolved     *)
(***************************************************************************)
\* The root, levels, a category folder, an installed file, missing paths and
\* paths outside the managed root.
ResolvePaths ==
    {RootPath, <<"dm", "p">>, <<"dm", "p", "c", "e1">>,
     <<"dm", "p", "c", "e1", "raw">>, <<"dm", "p", "c", "e1", "raw", "f">>,
     <<"dm", "nope">>, <<"in">>, SourceFile, << >>}
MaxResolves == 3

NextResolve ==
    \/ \E campaign \in Campaigns, experiment \in {NoName, "e1"} :
          now < MaxResolves /\ InitTree("p", campaign, experiment, FALSE)
    \/ now < MaxResolves
       /\ InstallIntoTree(SourceFile, "p", "c", "e1", "raw", << >>, NoName, FALSE,
                          NoPayload, FALSE)
    \/ \E path \in ResolvePaths :
          now < MaxResolves /\ FindDatasetRootAndRel(path)
    \/ \E path \in ResolvePaths, has_dm \in BOOLEAN :
          now < MaxResolves /\ GuiFindDatasetRootAndRel(path, has_dm)

SpecResolve == Constructed /\ [][NextResolve]_vars

(***************************************************************************)
(* Properties of the resolvers                                             *)
(***************************************************************************)
Resolved == last.op \in {"find_dataset_root_and_rel", "_find_dataset_root_and_rel"}

\* Where the search starts: the path if it is a directory, else its parent.
SearchFrom(path) == IF IsDir(fs, path) THEN path ELSE Parent(path)

\* The containers that enclose the start of the search and are not above the
\* managed root.
Enclosing(path) ==
    {d \in installed : IsPrefix(d, SearchFrom(path)) /\ IsPrefix(RootPath, d)}

\* C24: a resolver gives (None, None) for a path that does not exist; for one
\* that exists it gives the nearest container enclosing the start of the
\* search, none above the managed root, and (None, None) where there is none;
\* the relative path is the path taken relative to that container, the empty
\* path '.' for the container root itself.
C24_ResolvesToNearestContainer ==
    Resolved =>
       LET Right(path, encl) ==
               IF ~Exists(fs, path) \/ encl = {} THEN last.ret = NotFound
               ELSE /\ ~last.ret.none
                    /\ last.ret.ds_root \in encl
                    /\ \A d \in encl : Len(d) <= Len(last.ret.ds_root)
                    /\ last.ret.rel = RelativeTo(path, last.ret.ds_root)
                    /\ (path = last.ret.ds_root => last.ret.rel = << >>)
       IN  Right(last.args.source, Enclosing(last.args.source))

(***************************************************************************)
(* SpecRead: reads through load_meta and through a handle's get            *)
(***************************************************************************)
ReadPayloads == {NoPayload, Payload([note |-> "x"])}
MaxReadAdds == 1
MaxLoads == 2

NextRead ==
    \/ \E ds_root \in MetaRoots, path \in MetaPaths : MetaOpen(ds_root, path)
    \/ \E payload \in ReadPayloads, mode \in MetaModes :
          mlast.adds < MaxReadAdds /\ MetaAdd(payload, mode, "None", NoName)
    \/ MetaSave
    \/ \E mode \in GetModes : MetaGet(mode)
    \/ \E ds_root \in MetaRoots, path \in MetaPaths, mode \in GetModes :
          now < MaxLoads /\ LoadMeta(ds_root, path, mode)

SpecRead == InitMeta /\ [][NextRead]_vars

(***************************************************************************)
(* Properties of reading metadata                                          *)
(***************************************************************************)
\* The result g is what the document doc holds for key: the whole record in
\* envelope mode, its extracted_metadata in payload mode ('meta'), and an empty
\* mapping in both when the document has no record for the key.
ReadOf(doc, key, g) ==
    /\ g.err = "none"
    /\ g.mode = "envelope"
          => g.envelope = (IF key \in DOMAIN doc THEN doc[key] ELSE EmptyDict)
    /\ g.mode = "meta"
          => g.val = (IF key \in DOMAIN doc THEN doc[key].extracted_metadata
                      ELSE EmptyDict)

\* The key load_meta reads for the relative path it was given.
LoadedKey == IF last.args.dest_rel = << >> THEN "." ELSE PosixJoin(last.args.dest_rel)

\* C25: a read returns the stored record in envelope mode, its
\* extracted_metadata in payload mode and an empty mapping when the key has no
\* record; load_meta on a path that is not an installed container fails with
\* an error; and no read, through load_meta or through get on a handle,
\* changes the stored documents or the handle's document.
C25_ReadReturnsStored ==
    [][/\ now' # now
          => /\ md' = md
             /\ handle' = handle
             /\ IF Resolve(last'.args.source) \in installed
                THEN ReadOf(LoadDoc(md, Resolve(last'.args.source)), LoadedKey', got')
                ELSE got'.err # "none" /\ last'.err # "none"
       /\ (now' = now /\ got'.done /\ got' # got)
          => /\ md' = md
             /\ handle' = handle
             /\ ReadOf(handle.meta, handle.path_key, got')]_vars

(***************************************************************************)
(* Constructing the manager                                                *)
(***************************************************************************)
\* The configuration file and the working directory of the process.
ConfigPath == <<"home", "cfg", "config.json">>
Cwd == <<"home">>
NoRoot == << >>                 \* root=None

\* load_persistent_cfg: the file's dict, {} when there is no file.
LoadPersistentCfg(f) == IF ConfigPath \in DOMAIN f THEN f[ConfigPath].data ELSE EmptyDict

\* save_persistent_cfg: the parent directory is made, the file written.
SavePersistentCfg(f, data) ==
    LET Written(f1) ==
            [q \in (DOMAIN f1) \cup {ConfigPath} |->
                IF q = ConfigPath THEN FileNode(data) ELSE f1[q]]
    IN  Written(MkdirParents(f, Parent(ConfigPath)))

\* persisted.get(key): None (NoName) for a key the dict does not hold.
PersistedGet(persisted, key) ==
    IF key \in DOMAIN persisted THEN persisted[key] ELSE NoName

\* A resolution that lets the persisted value win over the argument.
EffectivePersistedFirst(explicit, persisted, key) ==
    IF PersistedGet(persisted, key) # NoName THEN PersistedGet(persisted, key)
    ELSE explicit

\* explicit or persisted.get(key): None and '' are both falsy.
Effective(explicit, persisted, key) ==
    IF explicit # NoName THEN explicit ELSE PersistedGet(persisted, key)

\* root or persisted.get("dm_root", "."), expanded and resolved: "." is the
\* working directory.
EffectiveRoot(root, persisted) ==
    IF root # NoRoot THEN Resolve(root)
    ELSE IF "dm_root" \in DOMAIN persisted THEN persisted["dm_root"]
    ELSE Cwd

\* DataManager.__init__: the effective values, the check of the identity, the
\* root folder, the configuration object and its persisted copy.
DataManagerInit(f, root, user_name, user_email, default_project, default_campaign, GIN_url, GIN_repo, GIN_user) ==
    LET Built(persisted, cfg) ==
            IF cfg.user_name = NoName \/ cfg.user_email = NoName
            THEN [err |-> "RuntimeError", cfg |-> EmptyDict, fs |-> f]
            ELSE [err |-> "none", cfg |-> cfg,
                  fs |-> SavePersistentCfg(MkdirParents(f, cfg.dm_root), cfg)]
        Loaded(persisted) ==
            Built(persisted,
                  [dm_root |-> EffectiveRoot(root, persisted),
                   user_name |-> Effective(user_name, persisted, "user_name"),
                   user_email |-> Effective(user_email, persisted, "user_email"),
                   default_project |-> Effective(default_project, persisted,
                                                 "default_project"),
                   default_campaign |-> Effective(default_campaign, persisted,
                                                  "default_campaign"),
                   GIN_url |-> Effective(GIN_url, persisted, "GIN_url"),
                   GIN_repo |-> Effective(GIN_repo, persisted, "GIN_repo"),
                   GIN_user |-> Effective(GIN_user, persisted, "GIN_user")])
    IN  Loaded(LoadPersistentCfg(f))

\* DataManager(...): last records the arguments and the configuration built.
Construct(root, user_name, user_email, default_project, default_campaign, GIN_url, GIN_repo, GIN_user) ==
    LET Done(R) ==
            /\ fs' = R.fs
            /\ last' = [NoCall EXCEPT
                           !.op = "__init__",
                           !.args = [root |-> root, user_name |-> user_name,
                                     user_email |-> user_email,
                                     default_project |-> default_project,
                                     default_campaign |-> default_campaign,
                                     GIN_url |-> GIN_url, GIN_repo |-> GIN_repo,
                                     GIN_user |-> GIN_user],
                           !.err = R.err, !.ret = R.cfg]
    IN  /\ Done(DataManagerInit(fs, root, user_name, user_email, default_project,
                                default_campaign, GIN_url, GIN_repo, GIN_user))
        /\ now' = now + 1
        /\ UNCHANGED <<installed, registered, md, metaVars, guiVars, remoteVars>>

(***************************************************************************)
(* SpecConfig: managers constructed one after another on one machine       *)
(***************************************************************************)
ConfigRoots == {NoRoot, <<"dm2">>}
ConfigUserNames == {NoName, "alice", "bob"}
ConfigUserEmails == {NoName, "a@x"}
ConfigProjects == {NoName, "p"}
ConfigCampaigns == {NoName, "c"}
ConfigGinUrls == {NoName, "u"}
ConfigGinRepos == {NoName, "r"}
ConfigGinUsers == {NoName, "g"}
MaxConstructs == 2

NextConfig ==
    \E root \in ConfigRoots, user_name \in ConfigUserNames,
       user_email \in ConfigUserEmails, default_project \in ConfigProjects,
       default_campaign \in ConfigCampaigns :
       \E GIN_url \in ConfigGinUrls, GIN_repo \in ConfigGinRepos,
          GIN_user \in ConfigGinUsers :
          /\ now < MaxConstructs
          /\ Construct(root, user_name, user_email, default_project,
                       default_campaign, GIN_url, GIN_repo, GIN_user)

\* No manager was constructed on the machine yet: no configuration file.
SpecConfig == Constructed /\ [][NextConfig]_vars

(***************************************************************************)
(* Properties of the construction                                          *)
(***************************************************************************)
\* The value the claim gives a setting: the explicit argument if given, else
\* the persisted value, else the built-in default (None).
Settled(explicit, persisted, key) ==
    IF explicit # NoName THEN explicit
    ELSE IF key \in DOMAIN persisted /\ persisted[key] # NoName THEN persisted[key]
    ELSE NoName

ConfigKeys ==
    {"user_name", "user_email", "default_project", "default_campaign",
     "GIN_url", "GIN_repo", "GIN_user"}

\* C26: a construction fails exactly when neither the arguments nor the
\* persisted configuration give a user name, or neither gives a user email;
\* otherwise every setting of the configuration it builds is the explicit
\* argument if given, else the persisted value, else the built-in default (the
\* working directory for the root, None for the others).
C26_ExplicitThenPersistedThenDefault ==
    [][last'.op = "__init__" /\ now' # now
         => LET Right(persisted, args) ==
                    IF \/ Settled(args.user_name, persisted, "user_name") = NoName
                       \/ Settled(args.user_email, persisted, "user_email") = NoName
                    THEN last'.err # "none"
                    ELSE /\ last'.err = "none"
                         /\ \A k \in ConfigKeys :
                               last'.ret[k] = Settled(args[k], persisted, k)
                         /\ last'.ret.dm_root =
                               (IF args.root # NoRoot THEN args.root
                                ELSE IF "dm_root" \in DOMAIN persisted
                                THEN persisted.dm_root ELSE Cwd)
            IN  Right(LoadPersistentCfg(fs), last'.args)]_vars

\* C26 happens: a manager was constructed with no user name, no root, no
\* default project and no GIN repository of its own on a machine whose
\* configuration holds them, and with a GIN URL of its own.
C26_Witness ==
    /\ last.op = "__init__" /\ last.err = "none"
    /\ last.args.user_name = NoName /\ last.ret.user_name = "alice"
    /\ last.args.root = NoRoot /\ last.ret.dm_root = <<"dm2">>
    /\ last.args.default_project = NoName /\ last.ret.default_project = "p"
    /\ last.args.GIN_url = "u" /\ last.args.GIN_repo = NoName
    /\ last.ret.GIN_repo = "r"

(***************************************************************************)
(* Properties of the order in which init_tree works                        *)
(***************************************************************************)
IsSupplied(name) == name # NoName
IsCreate(c) == c.call = "create"

\* The levels a call names, root first: every supplied name is one level, the
\* child of the level the names supplied before it make.
SuppliedChain(names) == [i \in 1..(Len(names) + 1) |-> RootPath \o SubSeq(names, 1, i - 1)]
LastSupplied ==
    SuppliedChain(SelectSeq(<<last.args.project, last.args.campaign,
                              last.args.experiment>>, IsSupplied))

\* C27: an init_tree that returns has ensured the root and one level for every
\* name it was given, and no other: each is installed and is a child of the
\* level above it, the ones it had to create were created from the root
\* downwards, and with an experiment name the call returns the experiment
\* level's path.
C27_SuppliedLevelsInOrder ==
    [][(last'.op = "init_tree" /\ last'.err = "none")
         => LET Right(chain, made) ==
                    /\ \A i \in DOMAIN chain : chain[i] \in installed'
                    /\ \A i \in 2..Len(chain) :
                          <<chain[i - 1], chain[i]>> \in registered'
                    /\ \A d \in installed' \ installed :
                          \E i \in DOMAIN chain : chain[i] = d
                    /\ \A i \in DOMAIN made :
                          /\ \E k \in DOMAIN chain : chain[k] = made[i].path
                          /\ \A j \in DOMAIN made :
                                i < j => Len(made[i].path) < Len(made[j].path)
                    /\ last'.args.experiment # NoName
                          => last'.ret = chain[Len(chain)]
            IN  Right(LastSupplied', SelectSeq(last'.trace, IsCreate))]_vars

\* The positions of the commits (dl.save) in a trace.
SaveCalls(trace) == {i \in DOMAIN trace : trace[i].call = "save"}

\* C28: an init_tree with force=true commits nothing while it builds the
\* chain, neither a new container nor its parent: when it returns, its one
\* commit is the recursive one on the root, the last thing it did, and when it
\* fails on the way it has committed nothing.
C28_ForceCommitsOnceAtEnd ==
    [][(last'.op = "init_tree" /\ last'.args.force)
         => IF last'.err = "none"
            THEN /\ SaveCalls(last'.trace) = {Len(last'.trace)}
                 /\ last'.trace[Len(last'.trace)] = Call("save", RootPath, "recursive")
            ELSE SaveCalls(last'.trace) = {}]_vars

(***************************************************************************)
(* Properties of the order in which a publish works                        *)
(***************************************************************************)
\* The container the last publish was called on.
PublishedTarget == last.trace[1].path

\* The positions in a trace of the commits and pushes of container d.
SavesAndPushes(trace, d) ==
    {i \in DOMAIN trace : trace[i].call \in {"save", "push"} /\ trace[i].path = d}
PushesOf(trace, d) ==
    {i \in DOMAIN trace : trace[i].call = "push" /\ trace[i].path = d}

\* C29: a publish creates or reconfigures the sibling first, then rewrites the
\* submodule URLs in the parents, then commits and pushes the target with its
\* content, and after that, for a target that is not the root, commits and
\* pushes the target's parent without content. It makes no other commit or
\* push call; for the root target there is none on a parent. A publish that
\* returns has pushed the target once and, below the root, its parent once.
C29_PublishOrder ==
    Published =>
       LET Right(t, ds, own, above) ==
               /\ \A i \in DOMAIN t : t[i].call = "create_sibling_gin" <=> i = 1
               /\ \A i, j \in DOMAIN t :
                     (t[i].call = "subdatasets" /\ t[j].call \in {"save", "push"})
                        => i < j
               /\ \A i \in DOMAIN t :
                     t[i].call \in {"save", "push"} => i \in own \cup above
               /\ ds = RootPath => above = {}
               /\ \A i \in own, j \in above : i < j
               /\ \A i \in PushesOf(t, ds) :
                     /\ t[i].arg = "anything"
                     /\ t[i - 1] = Call("save", ds, "GIN publishing")
               /\ \A i \in PushesOf(t, Parent(ds)) :
                     /\ t[i].arg = "nothing"
                     /\ t[i - 1] = Call("save", Parent(ds), "GIN publishing")
               /\ last.err = "none"
                     => /\ Cardinality(own) = 2
                        /\ Cardinality(PushesOf(t, ds)) = 1
                        /\ ds # RootPath
                              => /\ Cardinality(above) = 2
                                 /\ Cardinality(PushesOf(t, Parent(ds))) = 1
       IN  Right(last.trace, PublishedTarget,
                 SavesAndPushes(last.trace, PublishedTarget),
                 IF PublishedTarget = RootPath THEN {}
                 ELSE SavesAndPushes(last.trace, Parent(PublishedTarget)))

\* C29 happens: a publish of a container below the root returned, having
\* rewritten a submodule URL and pushed the container and then its parent.
C29_Witness ==
    /\ Published
    /\ last.err = "none"
    /\ PublishedTarget # RootPath
    /\ \E i \in DOMAIN last.trace : last.trace[i].call = "subdatasets"
    /\ last.trace[Len(last.trace)] = Call("push", Parent(PublishedTarget), "nothing")

(***************************************************************************)
(* Properties of the order in which an install works                       *)
(***************************************************************************)
\* The commits of the experiment container that save_meta makes, as positions
\* in a trace.
MetaCommits(trace, ep) == {i \in DOMAIN trace : trace[i] = Call("save", ep, "metadata")}

\* The records of a document other than the container's own.
ItemKeys(docs, ep) == (DOMAIN LoadDoc(docs, ep)) \ {"."}

Creations(trace) == {i \in DOMAIN trace : trace[i].call = "create"}

DerivedKeys(name) ==
    {"@context", "@type", "@id", "identifier"}
    \cup (IF name # NoName THEN {"name"} ELSE {})

\* C32: an add in overwrite mode does not fail and replaces the whole record
\* of its key: the payload stored afterwards holds the new payload's keys with
\* their values and the keys add derives, and no key the record held before
\* that is neither; the records of all other keys of the document are the
\* same after the add as before.
C32_OverwriteReplacesRecord ==
    [][(handle.open /\ mlast'.adds = mlast.adds + 1 /\ mlast'.mode = "overwrite")
         => LET Right(key, given) ==
                    /\ mlast'.err = "none"
                    /\ DOMAIN handle'.meta = (DOMAIN handle.meta) \cup {key}
                    /\ StoredKeys(handle') = DerivedKeys(mlast'.name) \cup DOMAIN given
                    /\ \A k \in DOMAIN given :
                          handle'.meta[key].extracted_metadata[k] = given[k]
                    /\ \A k \in StoredKeys(handle) :
                          (k \notin DOMAIN given /\ k \notin DerivedKeys(mlast'.name))
                             => k \notin StoredKeys(handle')
                    /\ \A other \in (DOMAIN handle.meta) \ {key} :
                          handle'.meta[other] = handle.meta[other]
            IN  Right(handle.path_key, mlast'.payload.d)]_vars

\* C32 happens: an overwriting add replaced a record that held a payload key
\* the new payload does not have, in a document that holds another record.
C32_Witness ==
    /\ mlast.done /\ mlast.mode = "overwrite" /\ mlast.err = "none"
    /\ "note" \in mlast.left
    /\ "note" \notin StoredKeys(handle)
    /\ "unit" \in StoredKeys(handle)
    /\ "." \in DOMAIN handle.meta /\ handle.path_key = "c"

(***************************************************************************)
(* drop_local and remove_from_tree                                         *)
(***************************************************************************)
\* Path(dataset) / Path(path): Path(None) raises TypeError.
ContentPath(dataset, path) ==
    IF ~path.given THEN [err |-> "TypeError", at |-> << >>]
    ELSE IF path.abs THEN [err |-> "none", at |-> Resolve(path.parts)]
    ELSE [err |-> "none", at |-> Resolve(dataset \o path.parts)]

\* dl.drop(what='filecontent'): the files at and below the content path lose
\* their local content when the engine finds it available elsewhere.
EngineDrop(S, dataset, at, recursive, available) ==
    LET Called(T) ==
            IF dataset \notin S.installed THEN Raise(T, "NoDatasetFound")
            ELSE IF ~Exists(S.fs, at) \/ ~available
            THEN Raise(T, "IncompleteResultsError")
            ELSE [T EXCEPT !.fs = [q \in DOMAIN S.fs |->
                                      IF IsPrefix(at, q) /\ S.fs[q].kind = "file"
                                      THEN FileNode("") ELSE S.fs[q]]]
    IN  Called(Traced(S, Call("drop", at, IF recursive THEN "recursive" ELSE "")))

\* dl.remove: the content path leaves the tree, and with it the containers at
\* and below it; without reckless the engine first wants the content
\* available elsewhere.
EngineRemove(S, dataset, at, recursive, reckless, available) ==
    LET Called(T) ==
            IF dataset \notin S.installed THEN Raise(T, "NoDatasetFound")
            ELSE IF ~Exists(S.fs, at) \/ (reckless = NoName /\ ~available)
            THEN Raise(T, "IncompleteResultsError")
            ELSE [T EXCEPT !.fs = RemoveTree(@, at),
                           !.installed = {d \in @ : ~IsPrefix(at, d)},
                           !.registered = {r \in @ : ~IsPrefix(at, r[2])},
                           !.md = [d \in {x \in DOMAIN @ : ~IsPrefix(at, x)} |-> @[d]]]
    IN  Called(Traced(S, Call("remove", at, IF recursive THEN "recursive" ELSE "")))

\* DataManager.drop_local
DropLocalCall(S, dataset, path, recursive, available) ==
    LET Joined(cp) ==
            IF cp.err # "none" THEN Raise(S, cp.err)
            ELSE EngineDrop(S, Resolve(dataset), cp.at, recursive, available)
    IN  Joined(ContentPath(dataset, path))

\* DataManager.remove_from_tree
RemoveFromTreeCall(S, dataset, path, recursive, reckless, available) ==
    LET Joined(cp) ==
            IF cp.err # "none" THEN Raise(S, cp.err)
            ELSE EngineRemove(S, Resolve(dataset), cp.at, recursive, reckless, available)
    IN  Joined(ContentPath(dataset, path))

DropArgs(dataset, path, recursive, reckless, available) ==
    [dataset |-> dataset, path |-> path, recursive |-> recursive,
     reckless |-> reckless, available |-> available]

DropLocal(dataset, path, recursive, available) ==
    /\ Returns("drop_local", DropArgs(dataset, path, recursive, NoName, available),
               DropLocalCall(Current, dataset, path, recursive, available), << >>, FALSE)
    /\ UNCHANGED <<metaVars, guiVars, remoteVars>>

RemoveFromTree(dataset, path, recursive, reckless, available) ==
    /\ Returns("remove_from_tree",
               DropArgs(dataset, path, recursive, reckless, available),
               RemoveFromTreeCall(Current, dataset, path, recursive, reckless,
                                  available), << >>, FALSE)
    /\ UNCHANGED <<metaVars, guiVars, remoteVars>>

(***************************************************************************)
(* SpecDrop: content is installed, dropped and removed                     *)
(***************************************************************************)
DropDatasets == {ExperimentPath("p", "c", "e1"), CampaignPath("p", "c")}
DropPaths == {NoPath, RelPath(<<"raw">>), RelPath(<<"raw", "f">>), RelPath(<<"e1">>)}
Reckless == {NoName, "availability"}
MaxDrops == 3

NextDrop ==
    \/ now < MaxDrops
       /\ InstallIntoTree(SourceFile, "p", "c", "e1", "raw", << >>, NoName, FALSE,
                          NoPayload, FALSE)
    \/ \E dataset \in DropDatasets, path \in DropPaths :
          \E recursive \in BOOLEAN, available \in BOOLEAN :
             now < MaxDrops /\ DropLocal(dataset, path, recursive, available)
    \/ \E dataset \in DropDatasets, path \in DropPaths, reckless \in Reckless :
          \E recursive \in BOOLEAN, available \in BOOLEAN :
             /\ now < MaxDrops
             /\ RemoveFromTree(dataset, path, recursive, reckless, available)

SpecDrop == Constructed /\ [][NextDrop]_vars

(***************************************************************************)
(* Properties of drop_local and remove_from_tree                           *)
(***************************************************************************)
\* C33: a drop_local or remove_from_tree without a path, on an installed
\* container, does not fail for the lack of a path and hands the engine the
\* whole container: it makes the engine's drop or remove call on the
\* container's own path.
C33_NoPathMeansWholeDataset ==
    (/\ last.op \in {"drop_local", "remove_from_tree"}
     /\ ~last.args.path.given)
        => /\ last.err # "TypeError"
           /\ last.trace # << >>
           /\ last.trace[1].call = (IF last.op = "drop_local" THEN "drop" ELSE "remove")
           /\ last.trace[1].path = last.args.dataset

(***************************************************************************)
(* SpecShared: two Metadata objects on the same tree                       *)
(***************************************************************************)
\* In this specification handle is the pair of Metadata objects two callers
\* hold (two save_meta calls in flight, or two objects of a script): each is
\* constructed, added to and saved on its own, in any order.
Holders == {1, 2}
SharedPaths == {NoPath, RelPath(<<"c">>), RelPath(<<"d">>)}
SharedPayloads == {Payload([note |-> "x"])}
MaxSharedAdds == 3

\* Metadata(ds_root, path) by holder i
SharedOpen(i, ds_root, path) ==
    /\ handle' = [handle EXCEPT ![i] = MetadataInit(installed, md, ds_root, path)]
    /\ UNCHANGED <<treeVars, mlast, got, guiVars, remoteVars, now>>

\* Metadata.add on holder i's object
SharedAdd(i, payload, mode, name) ==
    /\ handle[i].open
    /\ handle' = [handle EXCEPT ![i] =
                     MetadataAdd(fs, handle[i], payload, mode, UserName, UserEmail,
                                 "None", name, now).h]
    /\ now' = now + 1
    /\ UNCHANGED <<treeVars, mlast, got, guiVars, remoteVars>>

\* Metadata.save on holder i's object
SharedSave(i) ==
    /\ handle[i].open
    /\ md' = MetadataSave(md, handle[i])
    /\ UNCHANGED <<fs, installed, registered, last, metaVars, guiVars, remoteVars,
                   now>>

InitShared ==
    /\ fs = MetaProvisioned("c").fs
    /\ installed = MetaProvisioned("c").installed
    /\ registered = MetaProvisioned("c").registered
    /\ md = MetaProvisioned("c").md
    /\ last = NoCall
    /\ handle = [i \in Holders |-> ClosedHandle]
    /\ mlast = NoAdd
    /\ got = NoGet
    /\ running = << >>
    /\ queued = << >>
    /\ siblings = EmptyDict
    /\ gitmodules = EmptyDict
    /\ pushes = << >>
    /\ now = 0

NextShared ==
    \/ \E i \in Holders, ds_root \in MetaRoots, path \in SharedPaths :
          SharedOpen(i, ds_root, path)
    \/ \E i \in Holders, payload \in SharedPayloads, mode \in MetaModes :
          now < MaxSharedAdds /\ SharedAdd(i, payload, mode, NoName)
    \/ \E i \in Holders : SharedSave(i)

SpecShared == InitShared /\ [][NextShared]_vars

(***************************************************************************)
(* Properties of Metadata objects that share a container                   *)
(***************************************************************************)
\* C34: no save loses a saved record: whichever Metadata object saves, and
\* whatever was constructed, added and saved through other objects in
\* between, every key the container's document held before the save it
\* still holds after it.
C34_SaveKeepsSavedKeys ==
    [][\A d \in DOMAIN md :
          d \in DOMAIN md' /\ DOMAIN md[d] \subseteq DOMAIN md'[d]]_vars

(***************************************************************************)
(* Properties of the parent's push in publish_gin_sibling                  *)
(***************************************************************************)
\* The publish of the last call reached ds_parent.save for the parent of the
\* container d it ran on; ds_parent.push(to=sibling_name) is the statement
\* that follows it.
ParentPushReached(trace, d) ==
    /\ d # RootPath
    /\ \E i \in DOMAIN trace : trace[i] = Call("save", Parent(d), "GIN publishing")

\* The sibling name the last call's publish ran under, given the siblings
\* before the call: a lazy publish passes on 'origin' where it stopped at one.
PushedUnder(sibs, d) ==
    IF last'.op = "publish_lazy_to_remote"
    THEN PublishedUnder(sibs, d, last'.args.sibling_name)
    ELSE last'.args.sibling_name

\* C35: whenever a publish, called directly or by a lazy publish, comes to
\* push the content-free update of the parent of the container it ran on to
\* the sibling name it runs under, the parent has a sibling of that name.
C35_ParentPushHasSibling ==
    [][last'.op \in {"publish_gin_sibling", "publish_lazy_to_remote"}
         => \A i \in CreateCalls(last'.trace) :
               ParentPushReached(last'.trace, last'.trace[i].path)
                  => HasSibling(siblings', Parent(last'.trace[i].path),
                                PushedUnder(siblings, last'.trace[i].path))]_vars

(***************************************************************************)
(* Properties of init_tree on an installed tree                            *)
(***************************************************************************)
\* C36: an init_tree whose containers, from the root down to the deepest
\* level it names, are all installed already leaves every metadata document
\* as it was: the '.' record of each container and every other record are
\* the same after the call as before, with force as without.
C36_InstalledTreeKeepsMetadata ==
    [][(last'.op = "init_tree" /\ LastLevels' \subseteq installed) => md' = md]_vars

\* C36 happens: a forced init_tree down to an experiment repeated a call that
\* had returned, and the experiment's '.' record still carries the time of
\* an earlier call.
C36_Witness ==
    /\ last.op = "init_tree"
    /\ last.repeated
    /\ last.prev_err = "none"
    /\ last.err = "none"
    /\ last.args.force
    /\ last.args.experiment # NoName
    /\ LastLevels \subseteq DOMAIN md
    /\ \A d \in LastLevels : md[d]["."].extraction_time < now - 1

(***************************************************************************)
(* SpecNameless: installs that name no project or no campaign              *)
(***************************************************************************)
MaxNameless == 3

NextNameless ==
    \/ \E project \in Projects, campaign \in Campaigns :
          now < MaxNameless /\ InitTree(project, campaign, NoName, FALSE)
    \/ \E source \in InstallSources, project \in Projects, campaign \in Campaigns,
          category \in Categories, move \in BOOLEAN, metadata \in Metadatas :
          /\ now < MaxNameless
          /\ InstallIntoTree(source, project, campaign, "e1", category, << >>,
                             NoName, move, metadata, FALSE)

SpecNameless == Constructed /\ [][NextNameless]_vars

====
